---- MODULE Spec2Model ----
(***************************************************************************)
(* Verification model of the ReperooV2 API (apps/api): the recurring-      *)
(* transaction materializer, the transaction store and the experience /    *)
(* streak engine.                                                          *)
(*                                                                         *)
(* Time.  The services compute with Python datetimes.  An instant is the   *)
(* number of hours since 2024-01-01T00:00 UTC; a calendar date is a day    *)
(* number (1 = 2024-01-01, a Monday).  A value that reaches the services   *)
(* as a calendar date (a window bound, template.start_date) is the instant *)
(* at midnight of that date.                                               *)
(***************************************************************************)
EXTENDS Integers, Sequences, FiniteSets, TLC

VARIABLES
    templates,      \* recurring_templates table: set of template rows
    txns,           \* transactions table (committed rows)
    lastOp,         \* the request that completed last, with its outcome
    profiles,       \* profiles table: one row per user
    xp_events,      \* xp_events table, in insertion order
    now,            \* the wall clock, an instant
    checkin_resp,   \* the CheckInResponse returned last
    mat,            \* per worker process: its list request in flight
    xs,             \* per worker process: its experience request in flight
    call,           \* the call of a pure function under examination
    budget_plans,   \* budget_plans table (committed rows)
    bp              \* per worker process: its create_budget_plan call in flight

vars == <<templates, txns, lastOp, profiles, xp_events, now, checkin_resp, mat, xs,
          call, budget_plans, bp>>

----------------------------------------------------------------------------
(* Optional values: None is the empty set, a present value v is {v}.       *)

None == {}

Some(v) == {v}

TheVal(o) == CHOOSE v \in o : TRUE

Min(a, b) == IF a <= b THEN a ELSE b

Max(a, b) == IF a >= b THEN a ELSE b

----------------------------------------------------------------------------
(* Calendar of 2024 (calendar.monthrange, datetime.weekday).               *)

MonthLen == <<31, 29, 31, 30, 31, 30, 31, 31, 30, 31, 30, 31>>

\* calendar.monthrange(year, month)[1]; month 13 stands for January 2025
DaysInMonth(m) == IF m = 13 THEN 31 ELSE MonthLen[m]

RECURSIVE DaysBefore(_)
\* number of days of the year before the first day of month m
DaysBefore(m) == IF m = 1 THEN 0 ELSE DaysBefore(m - 1) + DaysInMonth(m - 1)

\* day number of the date (month m, day d)
DayNum(m, d) == DaysBefore(m) + d

\* date.month of a day number
MonthOf(day) == CHOOSE m \in 1..13 : DaysBefore(m) < day /\ day <= DaysBefore(m) + DaysInMonth(m)

\* date.day of a day number
DayOfMonth(day) == day - DaysBefore(MonthOf(day))

\* datetime.weekday(): Monday = 0 ... Sunday = 6
Weekday(day) == (day - 1) % 7

\* the instant at hour h of a day
At(day, h) == (day - 1) * 24 + h

\* the calendar date of an instant
DateOf(t) == (t \div 24) + 1

----------------------------------------------------------------------------
(* Occurrence generation (RecurringMaterializationService).  A template    *)
(* row is a record; frequency is "monthly", "weekly" or "biweekly".  The   *)
(* result of a calculation is [err, occ]: err is TRUE when the Python code *)
(* raises, occ is the list of occurrence instants it returns otherwise.    *)

\* truthiness of template.total_occurrences: None and 0 are both falsy
Truthy(o) == o # None /\ TheVal(o) # 0

\* the end conditions that break out of both loops
EndReached(template, current, occurrence_count) ==
    \/ template.end_date # None /\ current > TheVal(template.end_date)
    \/ Truthy(template.total_occurrences)
         /\ occurrence_count >= TheVal(template.total_occurrences)

RECURSIVE MonthlyLoop(_, _, _, _, _, _)
\* the while loop of _calculate_monthly_occurrences; current is the date
\* (month m, day of start_date) at midnight
MonthlyLoop(template, start_date, end_date, m, occurrences, occurrence_count) ==
    LET sd == DayOfMonth(DateOf(template.start_date))
        current == At(DayNum(m, sd), 0)
        actual_day == Min(TheVal(template.day_of_month), DaysInMonth(m))
        occurrence == At(DayNum(m, actual_day), 9)
        inRange == current >= start_date
        add == inRange /\ occurrence >= template.start_date /\ occurrence >= start_date
        occ2 == IF add THEN Append(occurrences, occurrence) ELSE occurrences
        cnt2 == IF add THEN occurrence_count + 1 ELSE occurrence_count
    IN  IF ~(current <= end_date) THEN [err |-> FALSE, occ |-> occurrences]
        ELSE IF inRange /\ EndReached(template, current, occurrence_count)
             THEN [err |-> FALSE, occ |-> occurrences]
        ELSE IF m = 12 THEN MonthlyLoop(template, start_date, end_date, 13, occ2, cnt2)
        \* current.replace(month=...) raises ValueError when the day does not exist
        ELSE IF sd > DaysInMonth(m + 1) THEN [err |-> TRUE, occ |-> <<>>]
        ELSE MonthlyLoop(template, start_date, end_date, m + 1, occ2, cnt2)

_calculate_monthly_occurrences(template, start_date, end_date) ==
    MonthlyLoop(template, start_date, end_date,
                MonthOf(DateOf(template.start_date)), <<>>, 0)

RECURSIVE WeeklyLoop(_, _, _, _, _, _, _)
\* the while loop of _calculate_weekly_occurrences
WeeklyLoop(template, start_date, end_date, weeks, current, occurrences, occurrence_count) ==
    IF ~(current <= end_date) THEN [err |-> FALSE, occ |-> occurrences]
    ELSE IF current >= start_date /\ current >= template.start_date
         THEN IF EndReached(template, current, occurrence_count)
              THEN [err |-> FALSE, occ |-> occurrences]
              ELSE WeeklyLoop(template, start_date, end_date, weeks,
                              current + 24 * 7 * weeks,
                              Append(occurrences, current), occurrence_count + 1)
    ELSE WeeklyLoop(template, start_date, end_date, weeks,
                    current + 24 * 7 * weeks, occurrences, occurrence_count)

\* variant that looks for the first occurrence from the window start on
_calculate_weekly_occurrences_FromWindow(template, start_date, end_date, weeks) ==
    LET startDay == Max(DateOf(template.start_date), DateOf(start_date))
        diff == TheVal(template.day_of_week) - Weekday(startDay)
        days_ahead == IF diff < 0 THEN diff + 7 ELSE diff
        first == At(startDay + days_ahead, 9)
    IN  WeeklyLoop(template, start_date, end_date, weeks, first, <<>>, 0)

_calculate_weekly_occurrences(template, start_date, end_date, weeks) ==
    LET startDay == DateOf(template.start_date)
        diff == TheVal(template.day_of_week) - Weekday(startDay)
        days_ahead == IF diff < 0 THEN diff + 7 ELSE diff
        first == At(startDay + days_ahead, 9)
    IN  WeeklyLoop(template, start_date, end_date, weeks, first, <<>>, 0)

calculate_occurrences(template, start_date, end_date) ==
    IF template.frequency = "monthly"
    THEN _calculate_monthly_occurrences(template, start_date, end_date)
    ELSE IF template.frequency = "weekly"
    THEN _calculate_weekly_occurrences(template, start_date, end_date, 1)
    ELSE IF template.frequency = "biweekly"
    THEN _calculate_weekly_occurrences(template, start_date, end_date, 2)
    ELSE [err |-> FALSE, occ |-> <<>>]

----------------------------------------------------------------------------
(* Inputs of the requests.                                                 *)

Users == {"A", "B"}

TemplateIds == {1}

\* a create-template payload (CreateRecurringTemplateExpensePayload), reduced
\* to the fields the materializer reads or copies; day is the day of the week
\* for weekly and biweekly templates and the day of the month for monthly
\* ones.  Amounts are whole currency units
Payload(frequency, day, start_day, end_date) ==
    [frequency |-> frequency,
     day_of_week |-> IF frequency = "monthly" THEN None ELSE Some(day),
     day_of_month |-> IF frequency = "monthly" THEN Some(day) ELSE None,
     start_date |-> At(start_day, 0), end_date |-> end_date,
     total_occurrences |-> None, type |-> "expense", amount |-> 42,
     expense_category_id |-> Some("groceries"), income_category_id |-> None]

\* 2024-01-05 is a Friday (weekday 4); one weekly template ends on 2024-02-02,
\* one stops after a single occurrence
TemplatePayloads ==
    {Payload("monthly", 5, DayNum(1, 5), None),
     Payload("monthly", 20, DayNum(1, 5), None),
     Payload("monthly", 31, DayNum(1, 31), None),
     Payload("weekly", 4, DayNum(1, 5), None),
     Payload("weekly", 4, DayNum(1, 5), Some(At(DayNum(2, 2), 0))),
     Payload("biweekly", 4, DayNum(1, 5), None),
     [Payload("weekly", 4, DayNum(1, 5), None) EXCEPT !.total_occurrences = Some(1)]}

\* the windows of list requests, as (first day, last day)
Windows == {<<DayNum(1, 1), DayNum(1, 14)>>,
            <<DayNum(1, 10), DayNum(1, 21)>>,
            <<DayNum(1, 1), DayNum(2, 6)>>}

\* the dates a client puts into create and update payloads
TxnDays == {DayNum(1, 12)}

TxnTypes == {"expense", "income"}

\* the transactions table holds at most MaxRows rows
MaxRows == 2

----------------------------------------------------------------------------
(* Recurring templates and the materializer.                               *)

\* the template query without the is_paused condition
get_active_templates_for_date_range_WithPaused(user_id, start_date, end_date) ==
    {t \in templates :
        /\ t.user_id = user_id
        /\ t.start_date <= end_date
        /\ (t.end_date = None \/ TheVal(t.end_date) >= start_date)}

\* RecurringTemplateRepository.get_active_templates_for_date_range
get_active_templates_for_date_range(user_id, start_date, end_date) ==
    {t \in templates :
        /\ t.user_id = user_id
        /\ t.is_paused = FALSE
        /\ t.start_date <= end_date
        /\ (t.end_date = None \/ TheVal(t.end_date) >= start_date)}

\* ExistingRows with the day range lost: only a row at midnight matches
ExistingRows_MidnightOnly(db, template_id, occurrence_date) ==
    {r \in db : /\ r.recurring_template_id = Some(template_id)
                /\ r.occurred_at = At(DateOf(occurrence_date), 0)}

\* the rows the query of _transaction_exists selects from the table db
ExistingRows(db, template_id, occurrence_date) ==
    {r \in db : /\ r.recurring_template_id = Some(template_id)
                /\ r.occurred_at >= At(DateOf(occurrence_date), 0)
                /\ r.occurred_at < At(DateOf(occurrence_date) + 1, 0)}

\* _transaction_exists: "raise" stands for MultipleResultsFound, which
\* scalar_one_or_none() raises when the query selects more than one row
_transaction_exists(db, template_id, occurrence_date) ==
    LET n == Cardinality(ExistingRows(db, template_id, occurrence_date))
    IN  IF n = 0 THEN "no" ELSE IF n = 1 THEN "yes" ELSE "raise"

\* the (template, occurrence) pairs the two loops of
\* materialize_for_date_range visit
Visits(ts, start_date, end_date) ==
    UNION {{<<t, calculate_occurrences(t, start_date, end_date).occ[i]>> :
               i \in 1..Len(calculate_occurrences(t, start_date, end_date).occ)} :
           t \in ts}

\* _create_transaction_from_template, without the row id
_create_transaction_from_template(template, occurrence_date) ==
    [user_id |-> template.user_id, occurred_at |-> occurrence_date,
     amount |-> template.amount, type |-> template.type,
     expense_category_id |-> template.expense_category_id,
     income_category_id |-> template.income_category_id,
     recurring_template_id |-> Some(template.id)]

\* the tables without the check constraint on the category columns
category_check_Missing(row) == TRUE

\* the SQL condition of transactions_category_check and of
\* recurring_templates_category_check (the same text in both tables); the
\* rows of the model carry no transaction_tag, which no request can unset
category_check(row) ==
    \/ /\ row.type = "expense"
       /\ row.expense_category_id # None
       /\ row.income_category_id = None
    \/ /\ row.type = "income"
       /\ row.income_category_id # None
       /\ row.expense_category_id = None

\* CheckConstraint transactions_category_check
transactions_category_check(row) == category_check(row)

\* CheckConstraint recurring_templates_category_check
recurring_templates_category_check(template) == category_check(template)

\* materialize_for_date_range against the committed table db: the status
\* the list request ends with and the rows it has added to its session.  A
\* new row that the check constraint of the table refuses makes the commit
\* raise: rollback and 500
materialize_for_date_range(db, user_id, start_date, end_date) ==
    LET ts == get_active_templates_for_date_range(user_id, start_date, end_date)
        visits == Visits(ts, start_date, end_date)
    IN  IF \E t \in ts : calculate_occurrences(t, start_date, end_date).err
        THEN [status |-> 400, pending |-> {}]
        ELSE IF \E v \in visits : _transaction_exists(db, v[1].id, v[2]) = "raise"
        THEN [status |-> 500, pending |-> {}]
        ELSE LET new == {_create_transaction_from_template(v[1], v[2]) :
                           v \in {w \in visits :
                                    _transaction_exists(db, w[1].id, w[2]) = "no"}}
             IN  IF \E r \in new : ~transactions_category_check(r)
                 THEN [status |-> 500, pending |-> {}]
                 ELSE [status |-> 200, pending |-> new]

\* uuid4(): an id that no row of the table db carries
FreshId(db) == CHOOSE i \in 1..(Cardinality(db) + 1) : \A r \in db : r.id # i

RECURSIVE AddRows(_, _)
\* session.add of the new rows, each under a fresh id, and commit
AddRows(db, rows) ==
    IF rows = {} THEN db
    ELSE LET key(x) == TheVal(x.recurring_template_id) * 10000 + x.occurred_at
             r == CHOOSE x \in rows : \A y \in rows : key(x) <= key(y)
         IN  AddRows(db \cup {[id |-> FreshId(db), user_id |-> r.user_id,
                               occurred_at |-> r.occurred_at, amount |-> r.amount,
                               type |-> r.type,
                               expense_category_id |-> r.expense_category_id,
                               income_category_id |-> r.income_category_id,
                               recurring_template_id |-> r.recurring_template_id]},
                     rows \ {r})

----------------------------------------------------------------------------
(* Experience engine (ExperienceService).  A profile row is a record; an   *)
(* XP event is a record whose description is [n, text]: text is the        *)
(* f-string of the code and n the number formatted into it (0 if none).    *)
(* date.today() is the calendar date of the clock on a server that runs in *)
(* UTC.  The operators take the loaded profile row, the xp_events table    *)
(* and the clock, and return the row and the table as the session leaves   *)
(* them.                                                                   *)

STREAK_MILESTONES ==
    (7 :> 50) @@ (14 :> 75) @@ (30 :> 150) @@ (60 :> 250) @@
    (100 :> 400) @@ (150 :> 500) @@ (200 :> 600) @@ (365 :> 1000)

TRANSACTION_DAILY_LIMIT == 5

Timezones == {"UTC", "America/Los_Angeles"}

\* the UTC offset of a timezone in January, in hours
UtcOffset(tz) == IF tz = "America/Los_Angeles" THEN 0 - 8 ELSE 0

\* get_user_today(user_timezone) at the instant t
get_user_today(user_timezone, t) == DateOf(t + UtcOffset(user_timezone))

\* date.today() at the instant t
ServerToday(t) == DateOf(t)

\* the row a new profile gets from the column defaults
NewProfile(id, tz) ==
    [id |-> id, current_level |-> 1, current_xp |-> 0, current_streak |-> 0,
     longest_streak |-> 0, last_login_date |-> None, total_xp_earned |-> 0,
     transactions_today_count |-> 0, last_transaction_date |-> None,
     timezone |-> tz]

\* calculate_level_from_xp with the level reached one XP late
calculate_level_from_xp_Strict(xp) ==
    IF xp <= 0 THEN 1
    ELSE Max(1, (CHOOSE k \in 0..xp :
                    /\ k = 0 \/ 5 * (2 * k + 1) * (2 * k + 1) < 5 + 4 * xp
                    /\ ~(5 * (2 * k + 3) * (2 * k + 3) < 5 + 4 * xp)) + 1)

\* calculate_level_from_xp: n = (-1 + sqrt(1 + 0.8 * xp)) / 2 and the result
\* max(1, floor(n) + 1).  floor(n) is the k with
\* 2k + 1 <= sqrt(1 + 0.8 * xp) < 2k + 3, that is (both sides squared and
\* multiplied by 5) 5 * (2k + 1)^2 <= 5 + 4 * xp < 5 * (2k + 3)^2
calculate_level_from_xp(xp) ==
    IF xp <= 0 THEN 1
    ELSE Max(1, (CHOOSE k \in 0..xp :
                    /\ 5 * (2 * k + 1) * (2 * k + 1) <= 5 + 4 * xp
                    /\ 5 * (2 * k + 3) * (2 * k + 3) > 5 + 4 * xp) + 1)

\* calculate_total_xp_for_level
calculate_total_xp_for_level(level) ==
    IF level <= 1 THEN 0
    ELSE LET n == level - 1 IN 5 * n * (n + 1)

\* XPEventRepository.create_event at the instant t
create_event(ev, user_id, xp_amount, event_type, description, t) ==
    Append(ev, [user_id |-> user_id, xp_amount |-> xp_amount,
                event_type |-> event_type, description |-> description,
                created_at |-> t])

\* the decimal digits of d are the last digits of those of n
DecimalSuffix(d, n) ==
    \/ d = n
    \/ \E p \in {10, 100, 1000} : d < p /\ 10 * d >= p /\ n >= p /\ n % p = d

\* XPEvent.description.contains(f"{days}-day")
DescriptionContains(description, days) ==
    description.text = "{n}-day streak bonus" /\ DecimalSuffix(days, description.n)

\* get_milestone_event looking among the daily_login events
get_milestone_event_LoginType(ev, user_id, days) ==
    {i \in 1..Len(ev) : /\ ev[i].user_id = user_id
                        /\ ev[i].event_type = "daily_login"
                        /\ DescriptionContains(ev[i].description, days)}

\* XPEventRepository.get_milestone_event: the events the query selects
get_milestone_event(ev, user_id, days) ==
    {i \in 1..Len(ev) : /\ ev[i].user_id = user_id
                        /\ ev[i].event_type = "streak_milestone"
                        /\ DescriptionContains(ev[i].description, days)}

\* the penalty of one missed day lowering total_xp_earned as well
ApplyPenalty_LowersTotal(profile, penalty_amount) ==
    [profile EXCEPT !.current_xp = Max(0, @ + penalty_amount),
                    !.total_xp_earned = @ + penalty_amount]

\* the penalty of one missed day without the floor at 0
ApplyPenalty_NoFloor(profile, penalty_amount) ==
    [profile EXCEPT !.current_xp = @ + penalty_amount]

\* _apply_inactivity_penalties: "profile.current_xp = max(0, ...)"
ApplyPenalty(profile, penalty_amount) ==
    [profile EXCEPT !.current_xp = Max(0, @ + penalty_amount)]

RECURSIVE PenaltyLoop(_, _, _, _, _)
\* the for loop of _apply_inactivity_penalties, from day on
PenaltyLoop(profile, ev, day, days_missed, t) ==
    IF day > days_missed THEN [profile |-> profile, events |-> ev]
    ELSE LET penalty_amount == 0 - (15 * day)
         IN  PenaltyLoop(
                 ApplyPenalty(profile, penalty_amount),
                 create_event(ev, profile.id, penalty_amount, "inactivity_penalty",
                              [n |-> day, text |-> "Missed day {n} of inactivity"], t),
                 day + 1, days_missed, t)

\* the penalties with a loop that stops one day early
_apply_inactivity_penalties_OneShort(profile, ev, days_missed, t) ==
    LET r == PenaltyLoop(profile, ev, 1, days_missed - 1, t)
    IN  [profile |-> [r.profile EXCEPT
                        !.current_level = calculate_level_from_xp(r.profile.current_xp)],
         events |-> r.events]

_apply_inactivity_penalties(profile, ev, days_missed, t) ==
    LET r == PenaltyLoop(profile, ev, 1, days_missed, t)
    IN  [profile |-> [r.profile EXCEPT
                        !.current_level = calculate_level_from_xp(r.profile.current_xp)],
         events |-> r.events]

\* the milestone award that leaves total_xp_earned as it is
_check_and_award_streak_milestone_NoTotal(profile, ev, user_id, t) ==
    LET streak == profile.current_streak
    IN  IF streak \notin DOMAIN STREAK_MILESTONES
        THEN [profile |-> profile, events |-> ev, milestone_reached |-> None]
        ELSE IF get_milestone_event(ev, user_id, streak) # {}
        THEN [profile |-> profile, events |-> ev, milestone_reached |-> None]
        ELSE LET xp_reward == STREAK_MILESTONES[streak]
             IN  [profile |-> [profile EXCEPT !.current_xp = @ + xp_reward],
                  events |-> create_event(ev, user_id, xp_reward, "streak_milestone",
                                [n |-> streak, text |-> "{n}-day streak bonus"], t),
                  milestone_reached |-> Some(streak)]

_check_and_award_streak_milestone(profile, ev, user_id, t) ==
    LET streak == profile.current_streak
    IN  IF streak \notin DOMAIN STREAK_MILESTONES
        THEN [profile |-> profile, events |-> ev, milestone_reached |-> None]
        ELSE IF get_milestone_event(ev, user_id, streak) # {}
        THEN [profile |-> profile, events |-> ev, milestone_reached |-> None]
        ELSE LET xp_reward == STREAK_MILESTONES[streak]
             IN  [profile |-> [profile EXCEPT !.current_xp = @ + xp_reward,
                                              !.total_xp_earned = @ + xp_reward],
                  events |-> create_event(ev, user_id, xp_reward, "streak_milestone",
                                [n |-> streak, text |-> "{n}-day streak bonus"], t),
                  milestone_reached |-> Some(streak)]

\* the streak step without the update of longest_streak
UpdateStreak_KeepsLongest(profile) ==
    [profile EXCEPT !.current_streak = @ + 1]

\* check_in, "Update streak": current_streak += 1, longest_streak follows
UpdateStreak(profile) ==
    [profile EXCEPT !.current_streak = @ + 1,
                    !.longest_streak = IF profile.current_streak + 1 > @
                                       THEN profile.current_streak + 1 ELSE @]

\* the early return of check_in never taken
AlreadyCheckedIn_Never(profile, today) == FALSE

\* check_in: "if profile.last_login_date == today"
AlreadyCheckedIn(profile, today) == profile.last_login_date = Some(today)

\* check_in creating the daily_login event before the penalties
check_in_LoginFirst(profile, ev, user_id, t) ==
    LET today == ServerToday(t)
    IN  IF AlreadyCheckedIn(profile, today)
        THEN [profile |-> profile, events |-> ev, commit |-> FALSE,
              resp |-> [xp_awarded |-> 0, new_total_xp |-> profile.current_xp,
                        new_level |-> profile.current_level, level_up |-> FALSE,
                        previous_level |-> None, streak_incremented |-> FALSE,
                        new_streak |-> profile.current_streak,
                        streak_broken |-> FALSE, inactivity_penalties |-> 0,
                        milestone_reached |-> None,
                        message |-> "Already checked in today"]]
        ELSE
        LET days_missed == IF profile.last_login_date # None
                           THEN (today - TheVal(profile.last_login_date)) - 1
                           ELSE 0
            ev0 == create_event(ev, user_id, 15, "daily_login",
                                [n |-> 0, text |-> "Daily check-in"], t)
            streak_broken == days_missed > 0
            pen == IF streak_broken
                   THEN _apply_inactivity_penalties(profile, ev0, days_missed, t)
                   ELSE [profile |-> profile, events |-> ev0]
            p1 == IF streak_broken
                  THEN [pen.profile EXCEPT !.current_streak = 0]
                  ELSE profile
            previous_level == p1.current_level
            ev2 == pen.events
            p2 == [p1 EXCEPT !.current_xp = @ + 15, !.total_xp_earned = @ + 15]
            p3 == IF ~streak_broken THEN UpdateStreak(p2) ELSE p2
            ms == _check_and_award_streak_milestone(p3, ev2, user_id, t)
            new_level == calculate_level_from_xp(ms.profile.current_xp)
            level_up == new_level > previous_level
        IN  [profile |-> [ms.profile EXCEPT !.last_login_date = Some(today),
                                            !.current_level = new_level],
             events |-> ms.events, commit |-> TRUE,
             resp |-> [xp_awarded |-> 15, new_total_xp |-> ms.profile.current_xp,
                       new_level |-> new_level, level_up |-> level_up,
                       previous_level |-> IF level_up THEN Some(previous_level) ELSE None,
                       streak_incremented |-> ~streak_broken,
                       new_streak |-> ms.profile.current_streak,
                       streak_broken |-> streak_broken,
                       inactivity_penalties |-> Len(pen.events) - Len(ev0),
                       milestone_reached |-> ms.milestone_reached,
                       message |-> "Welcome back! +15 XP"]]

\* ExperienceService.check_in at the instant t: the profile row and the
\* events table as the session leaves them, whether it commits, and the
\* CheckInResponse
check_in(profile, ev, user_id, t) ==
    LET today == ServerToday(t)
    IN  IF AlreadyCheckedIn(profile, today)
        THEN [profile |-> profile, events |-> ev, commit |-> FALSE,
              resp |-> [xp_awarded |-> 0, new_total_xp |-> profile.current_xp,
                        new_level |-> profile.current_level, level_up |-> FALSE,
                        previous_level |-> None, streak_incremented |-> FALSE,
                        new_streak |-> profile.current_streak,
                        streak_broken |-> FALSE, inactivity_penalties |-> 0,
                        milestone_reached |-> None,
                        message |-> "Already checked in today"]]
        ELSE
        LET days_missed == IF profile.last_login_date # None
                           THEN (today - TheVal(profile.last_login_date)) - 1
                           ELSE 0
            streak_broken == days_missed > 0
            pen == IF streak_broken
                   THEN _apply_inactivity_penalties(profile, ev, days_missed, t)
                   ELSE [profile |-> profile, events |-> ev]
            p1 == IF streak_broken
                  THEN [pen.profile EXCEPT !.current_streak = 0]
                  ELSE profile
            previous_level == p1.current_level
            ev2 == create_event(pen.events, user_id, 15, "daily_login",
                                [n |-> 0, text |-> "Daily check-in"], t)
            p2 == [p1 EXCEPT !.current_xp = @ + 15, !.total_xp_earned = @ + 15]
            p3 == IF ~streak_broken THEN UpdateStreak(p2) ELSE p2
            ms == _check_and_award_streak_milestone(p3, ev2, user_id, t)
            new_level == calculate_level_from_xp(ms.profile.current_xp)
            level_up == new_level > previous_level
        IN  [profile |-> [ms.profile EXCEPT !.last_login_date = Some(today),
                                            !.current_level = new_level],
             events |-> ms.events, commit |-> TRUE,
             resp |-> [xp_awarded |-> 15, new_total_xp |-> ms.profile.current_xp,
                       new_level |-> new_level, level_up |-> level_up,
                       previous_level |-> IF level_up THEN Some(previous_level) ELSE None,
                       streak_incremented |-> ~streak_broken,
                       new_streak |-> ms.profile.current_streak,
                       streak_broken |-> streak_broken,
                       inactivity_penalties |-> Len(pen.events) - Len(ev),
                       milestone_reached |-> ms.milestone_reached,
                       message |-> "Welcome back! +15 XP"]]

\* the award that leaves total_xp_earned as it is
award_transaction_xp_NoTotal(profile, ev, user_id, t) ==
    LET today == ServerToday(t)
        p1 == IF profile.last_transaction_date # Some(today)
              THEN [profile EXCEPT !.transactions_today_count = 0,
                                   !.last_transaction_date = Some(today)]
              ELSE profile
    IN  IF p1.transactions_today_count >= TRANSACTION_DAILY_LIMIT
        THEN [profile |-> profile, events |-> ev, awarded |-> FALSE]
        ELSE LET p2 == [p1 EXCEPT !.current_xp = @ + 3,
                                  !.transactions_today_count = @ + 1]
             IN  [profile |-> [p2 EXCEPT !.current_level =
                                             calculate_level_from_xp(p2.current_xp)],
                  events |-> create_event(ev, user_id, 3, "transaction",
                                          [n |-> 0, text |-> "Logged transaction"], t),
                  awarded |-> TRUE]

\* the award without the level update
award_transaction_xp_StaleLevel(profile, ev, user_id, t) ==
    LET today == ServerToday(t)
        p1 == IF profile.last_transaction_date # Some(today)
              THEN [profile EXCEPT !.transactions_today_count = 0,
                                   !.last_transaction_date = Some(today)]
              ELSE profile
    IN  IF p1.transactions_today_count >= TRANSACTION_DAILY_LIMIT
        THEN [profile |-> profile, events |-> ev, awarded |-> FALSE]
        ELSE [profile |-> [p1 EXCEPT !.current_xp = @ + 3, !.total_xp_earned = @ + 3,
                                     !.transactions_today_count = @ + 1],
              events |-> create_event(ev, user_id, 3, "transaction",
                                      [n |-> 0, text |-> "Logged transaction"], t),
              awarded |-> TRUE]

\* ExperienceService.award_transaction_xp at the instant t; awarded is FALSE
\* when it returns None, and then nothing is committed
award_transaction_xp(profile, ev, user_id, t) ==
    LET today == ServerToday(t)
        p1 == IF profile.last_transaction_date # Some(today)
              THEN [profile EXCEPT !.transactions_today_count = 0,
                                   !.last_transaction_date = Some(today)]
              ELSE profile
    IN  IF p1.transactions_today_count >= TRANSACTION_DAILY_LIMIT
        THEN [profile |-> profile, events |-> ev, awarded |-> FALSE]
        ELSE LET p2 == [p1 EXCEPT !.current_xp = @ + 3, !.total_xp_earned = @ + 3,
                                  !.transactions_today_count = @ + 1]
             IN  [profile |-> [p2 EXCEPT !.current_level =
                                             calculate_level_from_xp(p2.current_xp)],
                  events |-> create_event(ev, user_id, 3, "transaction",
                                          [n |-> 0, text |-> "Logged transaction"], t),
                  awarded |-> TRUE]

\* ExperienceService.get_status at the instant t: the profile row it commits
get_status(profile, t) ==
    IF profile.last_transaction_date # Some(ServerToday(t))
    THEN [profile EXCEPT !.transactions_today_count = 0,
                         !.last_transaction_date = Some(ServerToday(t))]
    ELSE profile

\* the CheckInResponse variable before any check-in
NoResp == [xp_awarded |-> 0, new_total_xp |-> 0, new_level |-> 1, level_up |-> FALSE,
           previous_level |-> None, streak_incremented |-> FALSE, new_streak |-> 0,
           streak_broken |-> FALSE, inactivity_penalties |-> 0,
           milestone_reached |-> None, message |-> ""]

\* the variables of the experience engine
xpVars == <<profiles, xp_events, now, checkin_resp, xs>>

\* lastOp before any request: kind is "list" for a list request and "other"
\* for any other request; for a list request, user and win are its user and
\* window, status its HTTP status, created the number of rows it generated,
\* changed whether it changed the transactions table, repeat whether the
\* request completed just before it was a list request of the same user and
\* window, and prevStatus, prevCreated the outcome of that request
NoOp == [kind |-> "none", user |-> "A", win |-> <<0, 0>>, status |-> 0,
         created |-> 0, changed |-> FALSE, repeat |-> FALSE,
         prevStatus |-> 0, prevCreated |-> 0]

\* the record of a request other than a list request
Other(k, u, st) == [NoOp EXCEPT !.kind = k, !.user = u, !.status = st]

\* POST /transactions/recurring/create and /create-income
\* (create_recurring_template_expense, create_recurring_template_income)
CreateTemplate(u, p) ==
    /\ \E id \in TemplateIds :
          /\ \A t \in templates : t.id # id
          /\ \A other \in TemplateIds : (\A t \in templates : t.id # other) => id <= other
          /\ templates' = templates \cup
                {[id |-> id, user_id |-> u, frequency |-> p.frequency,
                  day_of_week |-> p.day_of_week, day_of_month |-> p.day_of_month,
                  start_date |-> p.start_date, end_date |-> p.end_date,
                  total_occurrences |-> p.total_occurrences, type |-> p.type,
                  amount |-> p.amount,
                  expense_category_id |-> p.expense_category_id,
                  income_category_id |-> p.income_category_id,
                  is_paused |-> FALSE]}
    /\ lastOp' = Other("create_template", u, 201)
    /\ UNCHANGED <<txns, xpVars, mat, call, budget_plans, bp>>

\* PATCH /transactions/recurring/{id}/pause and /resume: update_recurring_template
\* with UpdateRecurringTemplatePayload(is_paused=paused).  The HTTPException(404)
\* raised inside the try block is caught by "except Exception" and becomes a 500.
SetPaused(u, id, paused) ==
    /\ IF \E t \in templates : t.id = id /\ t.user_id = u
       THEN /\ templates' = {IF t.id = id THEN [t EXCEPT !.is_paused = paused] ELSE t :
                               t \in templates}
            /\ lastOp' = Other("update_template", u, 200)
       ELSE /\ templates' = templates
            /\ lastOp' = Other("update_template", u, 500)
    /\ UNCHANGED <<txns, xpVars, mat, call, budget_plans, bp>>

\* the fields and values of the template updates that are examined
TemplateUpdates ==
    {<<"amount", 0>>, <<"expense_category_id", Some("housing_bills")>>,
     <<"income_category_id", Some("salary")>>}

\* the update that also rewrites the rows materialized from the template
UpdateTemplate_Cascade(u, id, key, value) ==
    LET found == {t \in templates : t.id = id /\ t.user_id = u}
        template == TheVal(found)
        updated == [template EXCEPT ![key] = value]
    IN  /\ IF found # {} /\ recurring_templates_category_check(updated)
           THEN /\ templates' = (templates \ {template}) \cup {updated}
                /\ txns' = {IF r.recurring_template_id = Some(id)
                            THEN [r EXCEPT ![key] = value] ELSE r : r \in txns}
                /\ lastOp' = Other("update_template", u, 200)
           ELSE /\ templates' = templates
                /\ txns' = txns
                /\ lastOp' = Other("update_template", u, 500)
        /\ UNCHANGED <<xpVars, mat, call, budget_plans, bp>>

\* PATCH /transactions/recurring/{id}/update with a payload that sets one
\* field: update_template assigns it, the route commits.  A template that
\* recurring_templates_category_check refuses makes the commit raise; that
\* exception and the HTTPException(404) of a missing template both end in
\* "except Exception": rollback and 500
UpdateTemplate(u, id, key, value) ==
    LET found == {t \in templates : t.id = id /\ t.user_id = u}
        template == TheVal(found)
        updated == [template EXCEPT ![key] = value]
    IN  /\ IF found # {} /\ recurring_templates_category_check(updated)
           THEN /\ templates' = (templates \ {template}) \cup {updated}
                /\ lastOp' = Other("update_template", u, 200)
           ELSE /\ templates' = templates
                /\ lastOp' = Other("update_template", u, 500)
        /\ UNCHANGED <<txns, xpVars, mat, call, budget_plans, bp>>

\* the request that completed last was the list request of user u for window w
SameRequest(u, w) == lastOp.kind = "list" /\ lastOp.user = u /\ lastOp.win = w

\* GET /transactions/list: materialize the window, commit when rows were
\* generated, then query.  A ValueError ends the request with 400, any other
\* exception with rollback and 500; in both cases nothing is committed.
ListTransactions(u, w) ==
    LET res == materialize_for_date_range(txns, u, At(w[1], 0), At(w[2], 0))
        generated_count == Cardinality(res.pending)
    IN  /\ Cardinality(txns) + generated_count <= MaxRows
        /\ txns' = AddRows(txns, res.pending)
        /\ lastOp' = [kind |-> "list", user |-> u, win |-> w, status |-> res.status,
                      created |-> generated_count,
                      changed |-> AddRows(txns, res.pending) # txns,
                      repeat |-> SameRequest(u, w),
                      prevStatus |-> IF SameRequest(u, w) THEN lastOp.status ELSE 0,
                      prevCreated |-> IF SameRequest(u, w) THEN lastOp.created ELSE 0]
        /\ UNCHANGED <<templates, xpVars, mat, call, budget_plans, bp>>

\* the row that create_expense_transaction or create_income_transaction
\* inserts into the table db: the category of the payload on the side of
\* the type, the other side None
NewTransaction(db, u, day, type) ==
    [id |-> FreshId(db), user_id |-> u, occurred_at |-> At(day, 0),
     amount |-> 42, type |-> type,
     expense_category_id |-> IF type = "expense" THEN Some("groceries") ELSE None,
     income_category_id |-> IF type = "income" THEN Some("salary") ELSE None,
     recurring_template_id |-> None]

\* the create route that lets the error of the XP award reach the client
create_response_status_Propagates(xp_error) == IF xp_error THEN 500 ELSE 201

\* the status of the create route once the service has committed the row:
\* an exception of award_transaction_xp is caught and logged, and the created
\* transaction is returned
create_response_status(xp_error) == 201

\* POST /transactions/create-expense and /create-income: the service commits
\* the row, owned by the authenticated user and without a template; then
\* award_transaction_xp runs in the same session and commits on its own.
\* xp_raises: award_transaction_xp raises (profile row not found, database
\* error) and nothing of the award is committed
CreateTransaction(u, day, type, xp_raises) ==
    LET xp == award_transaction_xp(profiles[u], xp_events, u, now)
    IN  /\ Cardinality(txns) < MaxRows
        /\ txns' = txns \cup {NewTransaction(txns, u, day, type)}
        /\ profiles' = IF xp_raises THEN profiles
                       ELSE [profiles EXCEPT ![u] = xp.profile]
        /\ xp_events' = IF xp_raises THEN xp_events ELSE xp.events
        /\ lastOp' = Other("create", u, create_response_status(xp_raises))
        /\ UNCHANGED <<templates, now, checkin_resp, mat, call, budget_plans, bp, xs>>

\* get_transaction_by_id that selects by id alone
get_transaction_by_id_AnyOwner(transaction_id, user_id) ==
    {r \in txns : r.id = transaction_id}

\* TransactionRepository.get_transaction_by_id: the rows with that id owned by the user
get_transaction_by_id(transaction_id, user_id) ==
    {r \in txns : r.id = transaction_id /\ r.user_id = user_id}

\* update_transaction without the comparison of the types
TypeMismatch_Ignored(db_transaction, ptype) == FALSE

\* update_transaction: the payload's type differs from the stored type
TypeMismatch(db_transaction, ptype) == db_transaction.type # ptype

\* the rows of the tables expense_categories and income_categories
ExpenseCategories == {"groceries", "housing_bills"}

IncomeCategories == {"salary"}

\* TransactionRepository.category_exists
category_exists(category_id, category_type) ==
    IF category_type = "expense" THEN category_id \in ExpenseCategories
    ELSE category_id \in IncomeCategories

\* PATCH /transactions/update/{id} (TransactionService.update_transaction):
\* ptype is the payload's type, occurred_at its optional new date and
\* category_id its optional category, which an expense payload carries as
\* expense_category_id and an income payload as income_category_id
\* (CategoryNotFoundError, 400, when no such category exists).  A row that
\* the check constraint refuses makes the commit raise
\* (TransactionUpdateError, 500)
UpdateTransactionWith(u, id, ptype, occurred_at, category_id) ==
    LET found == get_transaction_by_id(id, u)
        row == TheVal(found)
        dated == IF occurred_at # None
                 THEN [row EXCEPT !.occurred_at = At(TheVal(occurred_at), 0)]
                 ELSE row
        updated == IF category_id = None THEN dated
                   ELSE IF ptype = "expense"
                   THEN [dated EXCEPT !.expense_category_id = category_id]
                   ELSE [dated EXCEPT !.income_category_id = category_id]
    IN  /\ IF found = {} THEN
              /\ txns' = txns
              /\ lastOp' = Other("update", u, 404)
           ELSE IF TypeMismatch(row, ptype) THEN
              /\ txns' = txns
              /\ lastOp' = Other("update", u, 400)
           ELSE IF category_id # None /\ ~category_exists(TheVal(category_id), ptype) THEN
              /\ txns' = txns
              /\ lastOp' = Other("update", u, 400)
           ELSE IF ~transactions_category_check(updated) THEN
              /\ txns' = txns
              /\ lastOp' = Other("update", u, 500)
           ELSE
              /\ txns' = (txns \ {row}) \cup {updated}
              /\ lastOp' = Other("update", u, 200)
        /\ UNCHANGED <<templates, xpVars, mat, call, budget_plans, bp>>

\* the update request whose payload names no category
UpdateTransaction(u, id, ptype, occurred_at) ==
    UpdateTransactionWith(u, id, ptype, occurred_at, None)

\* DELETE /transactions/delete/{id} (TransactionService.delete_transaction)
DeleteTransaction(u, id) ==
    LET found == get_transaction_by_id(id, u)
    IN  /\ IF found = {} THEN
              /\ txns' = txns
              /\ lastOp' = Other("delete", u, 404)
           ELSE
              /\ txns' = txns \ found
              /\ lastOp' = Other("delete", u, 204)
        /\ UNCHANGED <<templates, xpVars, mat, call, budget_plans, bp>>

RowIds == 1..MaxRows

\* POST /experience/check-in
CheckIn(u) ==
    LET r == check_in(profiles[u], xp_events, u, now)
    IN  /\ profiles' = [profiles EXCEPT ![u] = r.profile]
        /\ xp_events' = r.events
        /\ checkin_resp' = r.resp
        /\ lastOp' = Other("check_in", u, 200)
        /\ UNCHANGED <<templates, txns, now, mat, call, budget_plans, bp, xs>>

\* GET /experience/status
GetStatus(u) ==
    /\ profiles' = [profiles EXCEPT ![u] = get_status(profiles[u], now)]
    /\ lastOp' = Other("status", u, 200)
    /\ UNCHANGED <<templates, txns, xp_events, now, checkin_resp, mat, call, budget_plans, bp, xs>>

\* the months of month-snapshot requests
SnapshotMonths == {1, 2}

\* GET /insights/month-snapshot (InsightsService.get_month_snapshot): without
\* a budget plan the request ends with 404; with one, the service queries
\* the transactions of the month.  It writes no table.  has_plan: the user
\* has a budget plan
GetMonthSnapshot(u, month, has_plan) ==
    /\ lastOp' = [NoOp EXCEPT !.kind = "snapshot", !.user = u,
                              !.win = <<DayNum(month, 1), DayNum(month, DaysInMonth(month))>>,
                              !.status = IF has_plan THEN 200 ELSE 404]
    /\ UNCHANGED <<templates, txns, xpVars, mat, call, budget_plans, bp>>

\* GET /transactions/today-summary: the route calls
\* transaction_service.get_today_summary, which TransactionService does not
\* define (the method is on TransactionRepository); the AttributeError is
\* caught by except Exception and the request ends with 500
GetTodaySummary(u) ==
    /\ lastOp' = [NoOp EXCEPT !.kind = "today", !.user = u,
                              !.win = <<DateOf(now), DateOf(now)>>,
                              !.status = 500]
    /\ UNCHANGED <<templates, txns, xpVars, mat, call, budget_plans, bp>>

\* the instant at which the model starts: 2024-01-01 12:00 UTC
StartNow == At(DayNum(1, 1), 12)

\* the clock advances by half a day at most MaxTicks times
MaxTicks == 2

\* half a day passes while no experience request is in flight
Tick ==
    /\ \A w \in DOMAIN xs : xs[w].pc = "idle"
    /\ now < StartNow + 12 * MaxTicks
    /\ now' = now + 12
    /\ UNCHANGED <<templates, txns, lastOp, profiles, xp_events, checkin_resp, mat, call, budget_plans, bp, xs>>

\* the last calendar day the clock reaches
MaxDay == 16

\* a day passes
NextDay ==
    /\ ServerToday(now) < MaxDay
    /\ now' = now + 24
    /\ UNCHANGED <<templates, txns, lastOp, profiles, xp_events, checkin_resp, mat, call, budget_plans, bp, xs>>

\* the last calendar day the clock reaches while transactions are logged
MaxXPDay == 5

\* a day passes, transactions being logged
NextDayXP ==
    /\ ServerToday(now) < MaxXPDay
    /\ now' = now + 24
    /\ UNCHANGED <<templates, txns, lastOp, profiles, xp_events, checkin_resp, mat, call, budget_plans, bp, xs>>

----------------------------------------------------------------------------
(* Requests served by different worker processes interleave at their       *)
(* database statements.  Each process holds one request in flight: what    *)
(* its session has loaded and what it has pending.                         *)

Workers == {1, 2}

\* the users whose experience requests are explored
XPUsers == {"A"}

MatIdle == [pc |-> "idle", user |-> "A", win |-> <<0, 0>>, work |-> <<>>,
            pending |-> {}, status |-> 0]

XsIdle == [pc |-> "idle", kind |-> "none", user |-> "A",
           profile |-> NewProfile("A", "UTC")]

RECURSIVE VisitSeq(_)
\* the visits in the order of the two loops
VisitSeq(visits) ==
    IF visits = {} THEN <<>>
    ELSE LET key(v) == v[1].id * 10000 + v[2]
             first == CHOOSE v \in visits : \A x \in visits : key(v) <= key(x)
         IN  <<first>> \o VisitSeq(visits \ {first})

\* GET /transactions/list, up to the first existence check: the template
\* query and calculate_occurrences
MatBegin(w, u, win) ==
    LET start_date == At(win[1], 0)
        end_date == At(win[2], 0)
        ts == get_active_templates_for_date_range(u, start_date, end_date)
        raised == \E t \in ts : calculate_occurrences(t, start_date, end_date).err
    IN  /\ mat[w].pc \in {"idle", "done"}
        /\ mat' = [mat EXCEPT ![w] =
              IF raised
              THEN [pc |-> "done", user |-> u, win |-> win, work |-> <<>>,
                    pending |-> {}, status |-> 400]
              ELSE [pc |-> "checking", user |-> u, win |-> win,
                    work |-> VisitSeq(Visits(ts, start_date, end_date)),
                    pending |-> {}, status |-> 0]]
        /\ UNCHANGED <<templates, txns, lastOp, xpVars, call, budget_plans, bp>>

\* one pass of the inner loop: _transaction_exists against the committed
\* rows, then session.add of the new row; MultipleResultsFound ends the
\* request with rollback and 500
MatCheck(w) ==
    LET m == mat[w]
        v == Head(m.work)
        ex == _transaction_exists(txns, v[1].id, v[2])
    IN  /\ m.pc = "checking" /\ m.work # <<>>
        /\ mat' = [mat EXCEPT ![w] =
              IF ex = "raise"
              THEN [m EXCEPT !.pc = "done", !.work = <<>>, !.pending = {}, !.status = 500]
              ELSE IF ex = "no"
              THEN [m EXCEPT !.work = Tail(m.work),
                             !.pending = @ \cup {_create_transaction_from_template(v[1], v[2])}]
              ELSE [m EXCEPT !.work = Tail(m.work)]]
        /\ UNCHANGED <<templates, txns, lastOp, xpVars, call, budget_plans, bp>>

\* the end of the loops: session.commit() when rows were generated, then
\* the response
MatCommit(w) ==
    LET m == mat[w]
    IN  /\ m.pc = "checking" /\ m.work = <<>>
        /\ Cardinality(txns) + Cardinality(m.pending) <= MaxRows
        /\ txns' = AddRows(txns, m.pending)
        /\ mat' = [mat EXCEPT ![w] = [m EXCEPT !.pc = "done", !.pending = {},
                                               !.status = 200]]
        /\ UNCHANGED <<templates, lastOp, xpVars, call, budget_plans, bp>>

\* session.commit(): the UPDATE writes the columns the session has changed
\* since it loaded the row (loaded) over the row in the table (row)
WriteBack(row, loaded, changed) ==
    [f \in DOMAIN row |-> IF changed[f] # loaded[f] THEN changed[f] ELSE row[f]]

\* POST /transactions/create-expense and /create-income, up to the query of
\* award_transaction_xp: the service commits the row, get_profile_by_id
\* loads the profile
BeginCreate(w, u, day, type) ==
    /\ xs[w].pc = "idle"
    /\ Cardinality(txns) < MaxRows
    /\ txns' = txns \cup {NewTransaction(txns, u, day, type)}
    /\ xs' = [xs EXCEPT ![w] = [pc |-> "loaded", kind |-> "create", user |-> u,
                                profile |-> profiles[u]]]
    /\ UNCHANGED <<templates, lastOp, profiles, xp_events, now, checkin_resp, mat, call, budget_plans, bp>>

\* the rest of award_transaction_xp, and its commit
FinishCreate(w) ==
    LET x == xs[w]
        xp == award_transaction_xp(x.profile, xp_events, x.user, now)
    IN  /\ x.pc = "loaded" /\ x.kind = "create"
        /\ profiles' = [profiles EXCEPT ![x.user] =
                           IF xp.awarded THEN WriteBack(@, x.profile, xp.profile) ELSE @]
        /\ xp_events' = xp.events
        /\ xs' = [xs EXCEPT ![w] = XsIdle]
        /\ UNCHANGED <<templates, txns, lastOp, now, checkin_resp, mat, call, budget_plans, bp>>

\* POST /experience/check-in, up to the query of check_in
BeginCheckIn(w, u) ==
    /\ xs[w].pc = "idle"
    /\ xs' = [xs EXCEPT ![w] = [pc |-> "loaded", kind |-> "check_in", user |-> u,
                                profile |-> profiles[u]]]
    /\ UNCHANGED <<templates, txns, lastOp, profiles, xp_events, now, checkin_resp, mat, call, budget_plans, bp>>

\* the rest of check_in, and its commit
FinishCheckIn(w) ==
    LET x == xs[w]
        r == check_in(x.profile, xp_events, x.user, now)
    IN  /\ x.pc = "loaded" /\ x.kind = "check_in"
        /\ profiles' = [profiles EXCEPT ![x.user] =
                           IF r.commit THEN WriteBack(@, x.profile, r.profile) ELSE @]
        /\ xp_events' = r.events
        /\ checkin_resp' = r.resp
        /\ xs' = [xs EXCEPT ![w] = XsIdle]
        /\ UNCHANGED <<templates, txns, lastOp, now, mat, call, budget_plans, bp>>

\* the largest XP total handed to calculate_level_from_xp
MaxXpArg == 600

\* calculate_level_from_xp(call.arg) returns
CallLevel ==
    /\ call.fn = "calculate_level_from_xp"
    /\ call.result = None
    /\ call' = [call EXCEPT !.result = Some(calculate_level_from_xp(call.arg))]
    /\ UNCHANGED <<templates, txns, lastOp, profiles, xp_events, now, checkin_resp, mat, xs,
                   budget_plans, bp>>

\* no create_budget_plan call in flight
BpIdle == [pc |-> "idle", user |-> "A", savings_goal |-> None]

\* the savings goals of create payloads
SavingsGoals == {None, Some(100), Some(-1)}

\* get_budget_plan_by_user_id against the committed table
get_budget_plan_by_user_id(user_id) == {p \in budget_plans : p.user_id = user_id}

\* the budget_plans table without its unique constraint
uq_budget_plans_user_id_Missing(db, row) == TRUE

\* UniqueConstraint uq_budget_plans_user_id: the table db accepts the row
uq_budget_plans_user_id(db, row) == \A p \in db : p.user_id # row.user_id

\* BudgetPlanService.create_budget_plan up to the validation of the payload:
\* an existing plan ends the call with BudgetPlanAlreadyExistsError (400), a
\* negative goal with BudgetPlanValidationError (400)
BeginCreatePlan(w, u, savings_goal) ==
    /\ bp[w].pc = "idle"
    /\ IF get_budget_plan_by_user_id(u) # {}
       THEN /\ lastOp' = Other("create_plan", u, 400)
            /\ bp' = bp
       ELSE IF savings_goal # None /\ TheVal(savings_goal) < 0
       THEN /\ lastOp' = Other("create_plan", u, 400)
            /\ bp' = bp
       ELSE /\ lastOp' = lastOp
            /\ bp' = [bp EXCEPT ![w] = [pc |-> "checked", user |-> u,
                                        savings_goal |-> savings_goal]]
    /\ UNCHANGED <<templates, txns, xpVars, mat, call, budget_plans>>

\* the rest of create_budget_plan: session.add and commit; a commit that
\* the unique constraint refuses is rolled back (BudgetPlanCreationError, 500)
CommitPlan(w) ==
    LET row == [id |-> CHOOSE i \in 1..(Cardinality(budget_plans) + 1) :
                          \A p \in budget_plans : p.id # i,
                user_id |-> bp[w].user, savings_goal |-> bp[w].savings_goal]
    IN  /\ bp[w].pc = "checked"
        /\ IF uq_budget_plans_user_id(budget_plans, row)
           THEN /\ budget_plans' = budget_plans \cup {row}
                /\ lastOp' = Other("create_plan", bp[w].user, 201)
           ELSE /\ budget_plans' = budget_plans
                /\ lastOp' = Other("create_plan", bp[w].user, 500)
        /\ bp' = [bp EXCEPT ![w] = BpIdle]
        /\ UNCHANGED <<templates, txns, xpVars, mat, call>>

----------------------------------------------------------------------------
(* Month snapshot arithmetic (InsightsService).  Percentages are exact     *)
(* fractions: a list of numerators over one positive denominator.          *)

RECURSIVE SumSeq(_)
\* sum() of a list of integers
SumSeq(s) == IF s = <<>> THEN 0 ELSE s[1] + SumSeq(Tail(s))

\* _calculate_percent for every entry of a list: part / total * 100, and
\* 0.0 when the total is 0
_calculate_percent(parts, total) ==
    IF total = 0 THEN [num |-> [i \in 1..Len(parts) |-> 0], den |-> 1]
    ELSE IF total > 0 THEN [num |-> [i \in 1..Len(parts) |-> 100 * parts[i]], den |-> total]
    ELSE [num |-> [i \in 1..Len(parts) |-> 0 - 100 * parts[i]], den |-> 0 - total]

\* _round_percentages: rescale to a sum of 100, floor, and hand the
\* remainder to the largest fractional parts (stable order among equals)
_round_percentages(percents) ==
    LET n == Len(percents.num)
        total == SumSeq(percents.num)
        sg == IF total > 0 THEN 1 ELSE 0 - 1
        \* scaled[i] = percents[i] * (100.0 / total) = N[i] / T with T > 0
        T == total * sg
        N == [i \in 1..n |-> 100 * percents.num[i] * sg]
        rounded == [i \in 1..n |-> N[i] \div T]
        frac == [i \in 1..n |-> N[i] % T]
        remainder == 100 - SumSeq(rounded)
        \* position of index i in sorted(..., reverse=True) and in sorted(...)
        posDesc(i) == Cardinality({j \in 1..n : frac[j] > frac[i] \/ (frac[j] = frac[i] /\ j < i)})
        posAsc(i) == Cardinality({j \in 1..n : frac[j] < frac[i] \/ (frac[j] = frac[i] /\ j < i)})
    IN  IF n = 0 THEN <<>>
        ELSE IF total = 0 THEN [i \in 1..n |-> 0]
        ELSE IF remainder > 0
             THEN [i \in 1..n |-> IF posDesc(i) < remainder THEN rounded[i] + 1 ELSE rounded[i]]
        ELSE IF remainder < 0
             THEN [i \in 1..n |-> IF posAsc(i) < 0 - remainder /\ rounded[i] > 0
                                  THEN rounded[i] - 1 ELSE rounded[i]]
        ELSE rounded

\* the category percentages of _build_category_breakdown: every expense row
\* has a category, so total_spent is the sum of the category totals
category_percents(totals) ==
    _round_percentages(_calculate_percent(totals, SumSeq(totals)))

\* the subcategory percentages inside one parent category whose total is the
\* subcategory totals plus the amounts of its rows without a subcategory
subcategory_percents(totals, unassigned) ==
    _round_percentages(_calculate_percent(totals, SumSeq(totals) + unassigned))

\* the longest list of category or subcategory totals
MaxCats == 3

\* the totals of one category or subcategory: sums of row amounts, which
\* recurring templates allow to be zero or negative
PercentTotals == {0 - 1, 0, 1, 2, 3}

\* the amounts of a category's rows without a subcategory
UnassignedTotals == {0, 1}

\* the lists of totals handed to the percentage calculation
PercentArgs ==
    UNION {[1..n -> PercentTotals] : n \in 1..MaxCats}

\* _build_category_breakdown computes the category percentages
CallCategoryPercents ==
    /\ call.fn = "category_percents"
    /\ call.result = None
    /\ call' = [call EXCEPT !.result = Some(category_percents(call.arg.totals))]
    /\ UNCHANGED <<templates, txns, lastOp, profiles, xp_events, now, checkin_resp, mat, xs,
                   budget_plans, bp>>

\* _build_category_breakdown computes the subcategory percentages of a parent
CallSubcategoryPercents ==
    /\ call.fn = "subcategory_percents"
    /\ call.result = None
    /\ call' = [call EXCEPT !.result =
                   Some(subcategory_percents(call.arg.totals, call.arg.unassigned))]
    /\ UNCHANGED <<templates, txns, lastOp, profiles, xp_events, now, checkin_resp, mat, xs,
                   budget_plans, bp>>

\* _calculate_month_over_month_delta as an exact fraction:
\* (current - previous) / previous, and 1.0 or 0.0 when previous is 0
_calculate_month_over_month_delta(current, previous) ==
    IF previous = 0
    THEN (IF current > 0 THEN [num |-> 1, den |-> 1] ELSE [num |-> 0, den |-> 1])
    ELSE [num |-> current - previous, den |-> previous]

\* the fraction f is the number n
IsNumber(f, n) == f.num = n * f.den

\* _build_savings_breakdown given the four totals get_total_by_category
\* returns: a delta is computed only when the previous total is truthy
_build_savings_breakdown(saved, invested, prev_saved, prev_invested) ==
    [saved |-> saved,
     invested |-> invested,
     savedDelta |-> IF prev_saved # 0
                    THEN Some(_calculate_month_over_month_delta(saved, prev_saved))
                    ELSE None,
     investedDelta |-> IF prev_invested # 0
                       THEN Some(_calculate_month_over_month_delta(invested, prev_invested))
                       ELSE None]

\* the monthly totals of the savings and the investments category
SavingsTotals == {0, 50, 100}

\* get_month_snapshot builds the savings breakdown
CallSavingsBreakdown ==
    /\ call.fn = "_build_savings_breakdown"
    /\ call.result = None
    /\ call' = [call EXCEPT !.result =
                   Some(_build_savings_breakdown(call.arg.saved, call.arg.invested,
                                                 call.arg.prev_saved, call.arg.prev_invested))]
    /\ UNCHANGED <<templates, txns, lastOp, profiles, xp_events, now, checkin_resp, mat, xs,
                   budget_plans, bp>>

----------------------------------------------------------------------------
(* Direct calls of calculate_occurrences.                                  *)

\* the start dates of the templates handed to calculate_occurrences:
\* a Monday, a Friday, a Saturday and the last day of January
OccStartDays == {DayNum(1, 1), DayNum(1, 5), DayNum(1, 20), DayNum(1, 31)}

\* their days of the month and days of the week
OccMonthDays == {5, 20, 31}
OccWeekdays == {0, 4}

\* their end dates and occurrence limits
OccEndDates == {None, Some(At(DayNum(2, 10), 0))}
OccTotals == {None, Some(2)}

\* the windows, as (first day, last day)
OccWindows == {<<DayNum(1, 1), DayNum(4, 30)>>,
               <<DayNum(1, 1), DayNum(2, 29)>>,
               <<DayNum(1, 10), DayNum(1, 21)>>,
               <<DayNum(3, 10), DayNum(3, 31)>>}

\* the templates handed to calculate_occurrences
OccTemplates ==
    {[Payload(f, d, sd, e) EXCEPT !.total_occurrences = n] :
        f \in {"monthly"}, d \in OccMonthDays, sd \in OccStartDays,
        e \in OccEndDates, n \in OccTotals}
    \cup
    {[Payload(f, d, sd, e) EXCEPT !.total_occurrences = n] :
        f \in {"weekly", "biweekly"}, d \in OccWeekdays, sd \in OccStartDays,
        e \in OccEndDates, n \in OccTotals}

\* calculate_occurrences(template, start_date, end_date) returns or raises
CallOccurrences ==
    /\ call.fn = "calculate_occurrences"
    /\ call.result = None
    /\ call' = [call EXCEPT !.result =
                   Some(calculate_occurrences(call.arg.template, call.arg.start_date,
                                              call.arg.end_date))]
    /\ UNCHANGED <<templates, txns, lastOp, profiles, xp_events, now, checkin_resp, mat, xs,
                   budget_plans, bp>>

----------------------------------------------------------------------------
(* Initial states and specifications.                                      *)

\* no pure function is under examination
NoCall == [fn |-> "none", arg |-> 0, result |-> None]

RECURSIVE AwardTimes(_, _, _, _)
\* the profile and the events after n awards of transaction XP at instant t
AwardTimes(st, user_id, n, t) ==
    IF n = 0 THEN st
    ELSE LET xp == award_transaction_xp(st.profile, st.events, user_id, t)
         IN  AwardTimes([profile |-> xp.profile, events |-> xp.events],
                        user_id, n - 1, t)

\* the tables without templates and transactions, no request in flight
InitTables(ps, ev) ==
    /\ templates = {}
    /\ txns = {}
    /\ lastOp = NoOp
    /\ profiles = ps
    /\ xp_events = ev
    /\ now = StartNow
    /\ checkin_resp = NoResp
    /\ mat = [w \in Workers |-> MatIdle]
    /\ xs = [w \in Workers |-> XsIdle]
    /\ call = NoCall
    /\ budget_plans = {}
    /\ bp = [w \in Workers |-> BpIdle]

\* both users have used up the transaction XP of the day (each has logged
\* TRANSACTION_DAILY_LIMIT transactions and deleted them again)
Init ==
    LET a == AwardTimes([profile |-> NewProfile("A", "UTC"), events |-> <<>>],
                        "A", TRANSACTION_DAILY_LIMIT, StartNow)
        b == AwardTimes([profile |-> NewProfile("B", "UTC"), events |-> a.events],
                        "B", TRANSACTION_DAILY_LIMIT, StartNow)
    IN  InitTables([u \in Users |-> IF u = "A" THEN a.profile ELSE b.profile], b.events)

Next ==
    \/ \E u \in Users, p \in TemplatePayloads : CreateTemplate(u, p)
    \/ \E u \in Users, id \in TemplateIds, b \in BOOLEAN : SetPaused(u, id, b)
    \/ \E u \in Users, w \in Windows : ListTransactions(u, w)
    \/ \E u \in Users, d \in TxnDays, ty \in TxnTypes, e \in BOOLEAN :
          CreateTransaction(u, d, ty, e)
    \/ \E u \in Users, id \in RowIds, ty \in TxnTypes, d \in {None} \cup {Some(x) : x \in TxnDays} :
          UpdateTransaction(u, id, ty, d)
    \/ \E u \in Users, id \in RowIds : DeleteTransaction(u, id)

Spec == Init /\ [][Next]_vars

\* new profiles, no activity yet
InitFresh == InitTables([u \in Users |-> NewProfile(u, "UTC")], <<>>)

\* calculate_level_from_xp is about to be called with an XP total
InitLevel ==
    /\ templates = {}
    /\ txns = {}
    /\ lastOp = NoOp
    /\ profiles = [u \in Users |-> NewProfile(u, "UTC")]
    /\ xp_events = <<>>
    /\ now = StartNow
    /\ checkin_resp = NoResp
    /\ mat = [w \in Workers |-> MatIdle]
    /\ xs = [w \in Workers |-> XsIdle]
    /\ call \in [fn : {"calculate_level_from_xp"}, arg : 0..MaxXpArg, result : {None}]
    /\ budget_plans = {}
    /\ bp = [w \in Workers |-> BpIdle]

NextLevel == CallLevel

SpecLevel == InitLevel /\ [][NextLevel]_vars

\* the tables are empty and a pure function is about to be called with one
\* of the given argument records
InitCalls(calls) ==
    /\ templates = {}
    /\ txns = {}
    /\ lastOp = NoOp
    /\ profiles = [u \in Users |-> NewProfile(u, "UTC")]
    /\ xp_events = <<>>
    /\ now = StartNow
    /\ checkin_resp = NoResp
    /\ mat = [w \in Workers |-> MatIdle]
    /\ xs = [w \in Workers |-> XsIdle]
    /\ call \in calls
    /\ budget_plans = {}
    /\ bp = [w \in Workers |-> BpIdle]

\* a month snapshot is about to compute category or subcategory percentages
InitPercent ==
    InitCalls({[fn |-> "category_percents", arg |-> [totals |-> t, unassigned |-> 0],
                result |-> None] : t \in PercentArgs}
              \cup
              {[fn |-> "subcategory_percents", arg |-> [totals |-> t, unassigned |-> r],
                result |-> None] : t \in PercentArgs, r \in UnassignedTotals})

NextPercent ==
    \/ CallCategoryPercents
    \/ CallSubcategoryPercents

SpecPercent == InitPercent /\ [][NextPercent]_vars

\* a month snapshot is about to build the savings breakdown from the totals
\* of the month and of the month before
InitSavings ==
    InitCalls({[fn |-> "_build_savings_breakdown",
                arg |-> [saved |-> s, invested |-> i, prev_saved |-> ps, prev_invested |-> pi],
                result |-> None] :
               s \in SavingsTotals, i \in SavingsTotals,
               ps \in SavingsTotals, pi \in SavingsTotals})

NextSavings == CallSavingsBreakdown

SpecSavings == InitSavings /\ [][NextSavings]_vars

\* the materializer is about to compute the occurrences of a template in a
\* window; the window bounds are the midnights of its first and last day
InitOcc ==
    InitCalls({[fn |-> "calculate_occurrences",
                arg |-> [template |-> t, start_date |-> At(w[1], 0), end_date |-> At(w[2], 0)],
                result |-> None] : t \in OccTemplates, w \in OccWindows})

NextOcc == CallOccurrences

SpecOcc == InitOcc /\ [][NextOcc]_vars

\* the templates of the requests that are examined for ownership
OwnerPayloads == {Payload("weekly", 4, DayNum(1, 5), None)}

\* both users create, list, update and delete, each naming any id
NextOwner ==
    \/ \E u \in Users, p \in OwnerPayloads : CreateTemplate(u, p)
    \/ \E u \in Users, id \in TemplateIds, b \in BOOLEAN : SetPaused(u, id, b)
    \/ \E u \in Users, w \in Windows : ListTransactions(u, w)
    \/ \E u \in Users, d \in TxnDays, ty \in TxnTypes : CreateTransaction(u, d, ty, FALSE)
    \/ \E u \in Users, id \in RowIds, ty \in TxnTypes, d \in {None} \cup {Some(x) : x \in TxnDays} :
          UpdateTransaction(u, id, ty, d)
    \/ \E u \in Users, id \in RowIds : DeleteTransaction(u, id)

SpecOwner == Init /\ [][NextOwner]_vars

\* the templates of the requests that are examined for amounts and
\* categories: an expense template, one with a negative amount, and an
\* income template (CreateRecurringTemplateIncomePayload)
FieldPayloads ==
    {Payload("weekly", 4, DayNum(1, 5), None),
     [Payload("weekly", 4, DayNum(1, 5), None) EXCEPT !.amount = -5],
     [Payload("weekly", 4, DayNum(1, 5), None) EXCEPT
         !.type = "income", !.expense_category_id = None,
         !.income_category_id = Some("salary")]}

\* the categories of update payloads
UpdateCategories == {None, Some("housing_bills"), Some("salary")}

\* one user creates and updates templates and transactions and lists
NextFields ==
    \/ \E u \in XPUsers, p \in FieldPayloads : CreateTemplate(u, p)
    \/ \E u \in XPUsers, id \in TemplateIds, kv \in TemplateUpdates :
          UpdateTemplate(u, id, kv[1], kv[2])
    \/ \E u \in XPUsers, w \in Windows : ListTransactions(u, w)
    \/ \E u \in XPUsers, d \in TxnDays, ty \in TxnTypes : CreateTransaction(u, d, ty, FALSE)
    \/ \E u \in XPUsers, id \in RowIds, ty \in TxnTypes, c \in UpdateCategories :
          UpdateTransactionWith(u, id, ty, None, c)
    \/ \E u \in XPUsers, id \in RowIds : DeleteTransaction(u, id)

SpecFields == Init /\ [][NextFields]_vars

\* two worker processes serve create_budget_plan calls of both users
NextPlans ==
    \/ \E w \in Workers, u \in Users, g \in SavingsGoals : BeginCreatePlan(w, u, g)
    \/ \E w \in Workers : CommitPlan(w)

SpecPlans == InitFresh /\ [][NextPlans]_vars

\* the read requests over the templates of the users
NextReads ==
    \/ \E u \in Users, p \in TemplatePayloads : CreateTemplate(u, p)
    \/ \E u \in Users, w \in Windows : ListTransactions(u, w)
    \/ \E u \in Users, m \in SnapshotMonths, b \in BOOLEAN : GetMonthSnapshot(u, m, b)
    \/ \E u \in Users : GetTodaySummary(u)

SpecReads == InitFresh /\ [][NextReads]_vars

\* two worker processes serve list requests of templates' owners
NextMatRace ==
    \/ \E u \in Users, p \in TemplatePayloads : CreateTemplate(u, p)
    \/ \E w \in Workers, u \in Users, win \in Windows : MatBegin(w, u, win)
    \/ \E w \in Workers : MatCheck(w)
    \/ \E w \in Workers : MatCommit(w)

SpecMatRace == InitFresh /\ [][NextMatRace]_vars

\* check-ins day after day
NextStreak ==
    \/ \E u \in XPUsers : CheckIn(u)
    \/ NextDay

SpecStreak == InitFresh /\ [][NextStreak]_vars

\* check-ins and logged transactions over a few days
NextXP ==
    \/ \E u \in XPUsers : CheckIn(u)
    \/ \E u \in XPUsers, d \in TxnDays, ty \in TxnTypes, e \in BOOLEAN :
          CreateTransaction(u, d, ty, e)
    \/ NextDayXP

SpecXP == InitFresh /\ [][NextXP]_vars

\* user A has logged three transactions today and deleted them again: the
\* next award crosses the XP needed for level 2
InitAwarded ==
    LET a == AwardTimes([profile |-> NewProfile("A", "UTC"), events |-> <<>>],
                        "A", 3, StartNow)
    IN  InitTables([u \in Users |-> IF u = "A" THEN a.profile ELSE NewProfile(u, "UTC")],
                   a.events)

SpecAwards == InitAwarded /\ [][NextXP]_vars

\* the last calendar day the clock reaches while check-ins build a streak
\* and transactions are logged
MaxTotalDay == 9

\* a day passes
NextDayTotals ==
    /\ ServerToday(now) < MaxTotalDay
    /\ now' = now + 24
    /\ UNCHANGED <<templates, txns, lastOp, profiles, xp_events, checkin_resp, mat, call,
                   budget_plans, bp, xs>>

\* check-ins day after day, long enough for a streak milestone and a gap
\* after it, with transactions logged in between
NextTotals ==
    \/ \E u \in XPUsers : CheckIn(u)
    \/ \E u \in XPUsers, d \in TxnDays : CreateTransaction(u, d, "expense", FALSE)
    \/ NextDayTotals

SpecTotals == InitFresh /\ [][NextTotals]_vars

\* new profiles; the users have chosen their timezone (PATCH /profile/timezone)
InitCap ==
    \E tz \in [XPUsers -> Timezones] :
        InitTables([u \in Users |-> NewProfile(u, IF u \in XPUsers THEN tz[u] ELSE "UTC")],
                   <<>>)

\* transactions logged and deleted around midnight
NextCap ==
    \/ \E u \in XPUsers, d \in TxnDays, ty \in TxnTypes, e \in BOOLEAN :
          CreateTransaction(u, d, ty, e)
    \/ \E u \in XPUsers, id \in RowIds : DeleteTransaction(u, id)
    \/ \E u \in XPUsers : GetStatus(u)
    \/ Tick

SpecCap == InitCap /\ [][NextCap]_vars

\* check-ins and logged transactions around the server's midnight, by users
\* in the server's timezone and west of it
NextToday ==
    \/ \E u \in XPUsers : CheckIn(u)
    \/ \E u \in XPUsers, d \in TxnDays, ty \in TxnTypes :
          CreateTransaction(u, d, ty, FALSE)
    \/ Tick

SpecToday == InitCap /\ [][NextToday]_vars

\* two worker processes serve the creates of one day
NextCapRace ==
    \/ \E w \in Workers, u \in XPUsers, d \in TxnDays, ty \in TxnTypes : BeginCreate(w, u, d, ty)
    \/ \E w \in Workers : FinishCreate(w)
    \/ \E u \in XPUsers, id \in RowIds : DeleteTransaction(u, id)

SpecCapRace == InitFresh /\ [][NextCapRace]_vars

\* two worker processes serve check-ins
NextCheckInRace ==
    \/ \E w \in Workers, u \in XPUsers : BeginCheckIn(w, u)
    \/ \E w \in Workers : FinishCheckIn(w)
    \/ Tick

SpecCheckInRace == InitFresh /\ [][NextCheckInRace]_vars

\* two worker processes serve a check-in and creates of one user on one day
NextXpRace ==
    \/ \E w \in Workers, u \in XPUsers : BeginCheckIn(w, u)
    \/ \E w \in Workers : FinishCheckIn(w)
    \/ \E w \in Workers, u \in XPUsers, d \in TxnDays : BeginCreate(w, u, d, "expense")
    \/ \E w \in Workers : FinishCreate(w)

SpecXpRace == InitFresh /\ [][NextXpRace]_vars

----------------------------------------------------------------------------
(* Properties of the materializer and the transaction store.               *)

\* the days on which a template recurs according to its rule: the clamped
\* day_of_month of each month for a monthly template, every 7th (14th) day
\* from the first day_of_week on or after start_date for a weekly (biweekly)
\* one; never before start_date nor after end_date
RuleDays(t) ==
    LET startDay == DateOf(t.start_date)
        diff == TheVal(t.day_of_week) - Weekday(startDay)
        anchor == startDay + (IF diff < 0 THEN diff + 7 ELSE diff)
        step == IF t.frequency = "weekly" THEN 7 ELSE 14
    IN  {d \in startDay..DayNum(12, 31) :
            /\ t.end_date # None => At(d, 0) <= TheVal(t.end_date)
            /\ IF t.frequency = "monthly"
               THEN DayOfMonth(d) = Min(TheVal(t.day_of_month), DaysInMonth(MonthOf(d)))
               ELSE d >= anchor /\ (d - anchor) % step = 0}

\* the occurrence dates of a template inside the window w = (first, last):
\* at most total_occurrences days, counted from start_date
OccurrenceDays(t, w) ==
    {d \in RuleDays(t) :
        /\ w[1] <= d /\ d <= w[2]
        /\ Truthy(t.total_occurrences) =>
              Cardinality({x \in RuleDays(t) : x < d}) < TheVal(t.total_occurrences)}

\* the rows materialized from template t for day d
RowsFor(t, d) ==
    {r \in txns : r.recurring_template_id = Some(t.id) /\ DateOf(r.occurred_at) = d}

\* C1: after a list request has materialized its window and committed, every
\* occurrence date in the window of every non-paused template of the user
\* has exactly one transaction row
C1_OneRowPerOccurrence ==
    lastOp.kind = "list" =>
        \A t \in templates :
            (t.user_id = lastOp.user /\ ~t.is_paused) =>
                \A d \in OccurrenceDays(t, lastOp.win) : Cardinality(RowsFor(t, d)) = 1

\* C2: a list request that directly follows the same list request (same user,
\* same window) generates no row and leaves the transactions table as it
\* was; it returns 0 rows generated whenever the first request returned
C2_SecondRunCreatesNothing ==
    (lastOp.kind = "list" /\ lastOp.repeat) =>
        /\ lastOp.created = 0
        /\ ~lastOp.changed
        /\ lastOp.prevStatus = 200 => lastOp.status = 200

\* a repeated list request whose first run generated rows
C2_Witness ==
    /\ lastOp.kind = "list" /\ lastOp.repeat
    /\ lastOp.prevStatus = 200 /\ lastOp.prevCreated > 0
    /\ lastOp.status = 200

\* the pairs of distinct rows of the table db with the same non-null
\* recurring_template_id and the same occurred_at
Duplicates(db) ==
    {pair \in db \X db :
        /\ pair[1] # pair[2]
        /\ pair[1].recurring_template_id # None
        /\ pair[1].recurring_template_id = pair[2].recurring_template_id
        /\ pair[1].occurred_at = pair[2].occurred_at}

\* C4: in every reachable state, no two transaction rows have the same
\* non-null recurring_template_id and the same occurred_at
C4_UniqueTemplateDate == Duplicates(txns) = {}

\* C3: when two worker processes have served list requests of the same user
\* and window, however their existence checks, inserts and commits were
\* interleaved, the table holds one row per (recurring_template_id,
\* occurred_at) and neither request has ended with an error (a request that
\* ends with 400 fails on its template alone and is not considered)
C3_RaceKeepsOneRow ==
    \A w1, w2 \in Workers :
        (/\ w1 # w2
         /\ mat[w1].pc = "done" /\ mat[w2].pc = "done"
         /\ mat[w1].user = mat[w2].user /\ mat[w1].win = mat[w2].win
         /\ mat[w1].status # 400 /\ mat[w2].status # 400)
        => /\ mat[w1].status = 200 /\ mat[w2].status = 200
           /\ Duplicates(txns) = {}

----------------------------------------------------------------------------
(* Properties of the experience engine.                                    *)

\* the events of one type of a user
EventsOf(u, event_type) ==
    {i \in 1..Len(xp_events) :
        xp_events[i].user_id = u /\ xp_events[i].event_type = event_type}

\* the transaction XP events of a user created on the user-local day d
TransactionEventsOnLocalDay(u, d) ==
    {i \in EventsOf(u, "transaction") :
        get_user_today(profiles[u].timezone, xp_events[i].created_at) = d}

\* C5: after any number of creates by one user, one after another, at most
\* TRANSACTION_DAILY_LIMIT transaction XP events exist for any one
\* user-local day
C5_AtMostFivePerLocalDay ==
    \A u \in Users : \A i \in EventsOf(u, "transaction") :
        Cardinality(TransactionEventsOnLocalDay(u,
            get_user_today(profiles[u].timezone, xp_events[i].created_at)))
          <= TRANSACTION_DAILY_LIMIT

\* C6: however concurrent creates of one user on one day interleave,
\* transactions_today_count never exceeds TRANSACTION_DAILY_LIMIT and no more
\* than TRANSACTION_DAILY_LIMIT transaction XP events are committed for the day
C6_CapUnderConcurrency ==
    \A u \in Users :
        /\ profiles[u].transactions_today_count <= TRANSACTION_DAILY_LIMIT
        /\ Cardinality({i \in EventsOf(u, "transaction") :
                          ServerToday(xp_events[i].created_at) = ServerToday(now)})
              <= TRANSACTION_DAILY_LIMIT

\* C7: a check_in called when last_login_date already equals the today of
\* check_in returns xp_awarded = 0 and streak_incremented = false, appends no
\* XP event and leaves current_xp, total_xp_earned, current_level,
\* current_streak, longest_streak and last_login_date unchanged
C7_SecondCheckInIsNoOp ==
    [][\A u \in Users :
          (CheckIn(u) /\ profiles[u].last_login_date = Some(ServerToday(now)))
          => /\ checkin_resp'.xp_awarded = 0
             /\ checkin_resp'.streak_incremented = FALSE
             /\ xp_events' = xp_events
             /\ profiles'[u].current_xp = profiles[u].current_xp
             /\ profiles'[u].total_xp_earned = profiles[u].total_xp_earned
             /\ profiles'[u].current_level = profiles[u].current_level
             /\ profiles'[u].current_streak = profiles[u].current_streak
             /\ profiles'[u].longest_streak = profiles[u].longest_streak
             /\ profiles'[u].last_login_date = profiles[u].last_login_date]_vars

\* a second check-in of the day has just returned, after a first one that
\* was awarded
C7_Witness ==
    \E u \in Users :
        /\ checkin_resp.message = "Already checked in today"
        /\ profiles[u].last_login_date = Some(ServerToday(now))
        /\ profiles[u].current_streak >= 1
        /\ EventsOf(u, "daily_login") # {}

\* C8: however concurrent check-ins of one user on one date interleave, one
\* of them awards the daily login and every other one is a no-op: one
\* daily_login event exists for the date
C8_OneLoginPerDate ==
    \A u \in Users :
        Cardinality({i \in EventsOf(u, "daily_login") :
                        ServerToday(xp_events[i].created_at) = ServerToday(now)}) <= 1

\* C9: after any sequence of check-ins, also when the streak is broken and
\* climbs back to the same length, at most one streak_milestone event
\* exists per user and milestone length
C9_OneMilestoneEventPerLength ==
    \A u \in Users : \A n \in DOMAIN STREAK_MILESTONES :
        Cardinality({i \in EventsOf(u, "streak_milestone") :
                        xp_events[i].description.n = n}) <= 1

\* the streak was broken after a milestone and has climbed back to its length
C9_Witness ==
    \E u \in Users :
        /\ profiles[u].current_streak \in DOMAIN STREAK_MILESTONES
        /\ profiles[u].last_login_date = Some(ServerToday(now))
        /\ \E i \in EventsOf(u, "streak_milestone") :
              /\ xp_events[i].description.n = profiles[u].current_streak
              /\ \E j \in EventsOf(u, "inactivity_penalty") : i < j

\* C10: a check_in that follows one or more missed days (last_login_date at
\* least 2 days before today) counts as day one: on return current_streak
\* = 1, no milestone was awarded and last_login_date = today
C10_CheckInAfterGapIsDayOne ==
    [][\A u \in Users :
          (/\ CheckIn(u)
           /\ profiles[u].last_login_date # None
           /\ ServerToday(now) - TheVal(profiles[u].last_login_date) >= 2)
          => /\ profiles'[u].current_streak = 1
             /\ checkin_resp'.milestone_reached = None
             /\ EventsOf(u, "streak_milestone")' = EventsOf(u, "streak_milestone")
             /\ profiles'[u].last_login_date = Some(ServerToday(now))]_vars

RECURSIVE SumAmounts(_, _)
\* the sum of xp_amount over the events of user u among the first n events
SumAmounts(u, n) ==
    IF n = 0 THEN 0
    ELSE SumAmounts(u, n - 1)
           + (IF xp_events[n].user_id = u THEN xp_events[n].xp_amount ELSE 0)

\* C11: in every reachable state, after any sequence of check-ins and
\* transaction awards with any gaps between check-ins, current_xp >= 0
C11_XpNonNegative ==
    \A u \in Users : profiles[u].current_xp >= 0

\* penalties larger than the XP of the profile have been applied: the
\* events of the user sum to less than current_xp
C11_Witness ==
    \E u \in Users :
        /\ EventsOf(u, "inactivity_penalty") # {}
        /\ EventsOf(u, "transaction") # {}
        /\ SumAmounts(u, Len(xp_events)) < profiles[u].current_xp

\* C12: in every reachable state, after every check-in (with or without a
\* broken streak) and every transaction award, longest_streak >= current_streak
C12_LongestAtLeastCurrent ==
    \A u \in Users : profiles[u].longest_streak >= profiles[u].current_streak

\* a streak was broken and a new one has begun below the longest one
C12_Witness ==
    \E u \in Users :
        /\ EventsOf(u, "inactivity_penalty") # {}
        /\ profiles[u].current_streak >= 1
        /\ profiles[u].longest_streak > profiles[u].current_streak

\* C15: total_xp_earned never decreases in any step; a check-in that applies
\* inactivity penalties raises it by the login bonus alone
C15_TotalXpNeverDecreases ==
    [][\A u \in Users :
          /\ profiles'[u].total_xp_earned >= profiles[u].total_xp_earned
          /\ (CheckIn(u) /\ checkin_resp'.inactivity_penalties > 0)
                => profiles'[u].total_xp_earned = profiles[u].total_xp_earned + 15]_vars

\* a check-in has applied penalties: current_xp is below total_xp_earned
C15_Witness ==
    \E u \in Users :
        /\ checkin_resp.streak_broken
        /\ checkin_resp.inactivity_penalties > 0
        /\ profiles[u].last_login_date = Some(ServerToday(now))
        /\ profiles[u].current_xp < profiles[u].total_xp_earned

\* the streak_milestone events of user u for the streak length n
MilestoneEvents(u, n) ==
    {i \in EventsOf(u, "streak_milestone") : xp_events[i].description.n = n}

\* C13: a check-in that brings current_streak to a milestone length n for
\* which the user has no streak_milestone event appends the daily_login
\* event and exactly one streak_milestone event carrying the mapped reward,
\* and raises current_xp and total_xp_earned by 15 plus the reward (65 at
\* n = 7); the check-in that brings the streak to n + 1 appends no
\* streak_milestone event
C13_MilestoneAwardedOnce ==
    [][\A u \in Users : CheckIn(u) =>
          \A n \in DOMAIN STREAK_MILESTONES :
             /\ (/\ profiles[u].current_streak = n - 1
                 /\ profiles'[u].current_streak = n
                 /\ MilestoneEvents(u, n) = {})
                => /\ Len(xp_events') = Len(xp_events) + 2
                   /\ xp_events'[Len(xp_events')].user_id = u
                   /\ xp_events'[Len(xp_events')].event_type = "streak_milestone"
                   /\ xp_events'[Len(xp_events')].description.n = n
                   /\ xp_events'[Len(xp_events')].xp_amount = STREAK_MILESTONES[n]
                   /\ xp_events'[Len(xp_events) + 1].event_type = "daily_login"
                   /\ profiles'[u].current_xp =
                         profiles[u].current_xp + 15 + STREAK_MILESTONES[n]
                   /\ profiles'[u].total_xp_earned =
                         profiles[u].total_xp_earned + 15 + STREAK_MILESTONES[n]
                   /\ n = 7 => profiles'[u].current_xp = profiles[u].current_xp + 65
             /\ (profiles[u].current_streak = n /\ profiles'[u].current_streak = n + 1)
                => EventsOf(u, "streak_milestone")' = EventsOf(u, "streak_milestone")]_vars

\* the check-in after the one that earned the 7-day milestone has returned
C13_Witness ==
    \E u \in Users :
        /\ profiles[u].current_streak = 8
        /\ profiles[u].last_login_date = Some(ServerToday(now))
        /\ Cardinality(MilestoneEvents(u, 7)) = 1
        /\ \A i \in MilestoneEvents(u, 7) : xp_events[i].xp_amount = 50
        /\ checkin_resp.milestone_reached = None

\* C14: for every XP total X >= 0, calculate_level_from_xp(X) is the largest
\* level L with calculate_total_xp_for_level(L) <= X; in particular, for
\* every L >= 2, the level of 5 * (L - 1) * L is L and the level of
\* 5 * (L - 1) * L - 1 is L - 1
C14_LevelIsLargestReached ==
    (call.fn = "calculate_level_from_xp" /\ call.result # None) =>
        LET X == call.arg
            r == TheVal(call.result)
        IN  /\ r >= 1
            /\ calculate_total_xp_for_level(r) <= X
            /\ calculate_total_xp_for_level(r + 1) > X
            /\ \A L \in 2..MaxXpArg :
                  /\ X = 5 * (L - 1) * L => r = L
                  /\ X = 5 * (L - 1) * L - 1 => r = L - 1

\* the call at the first XP total of level 7 has returned 7
C14_Witness ==
    /\ call.fn = "calculate_level_from_xp"
    /\ call.arg = 5 * 6 * 7
    /\ call.result = Some(7)

\* C16: a create request whose award_transaction_xp raises still answers 201
\* with the created transaction: the new row, owned by the caller, is in the
\* table with every earlier row, and no XP is awarded
C16_XpErrorNotPropagated ==
    [][\A u \in Users, d \in TxnDays, ty \in TxnTypes :
          CreateTransaction(u, d, ty, TRUE) =>
             /\ lastOp'.kind = "create"
             /\ lastOp'.status = 201
             /\ txns \subseteq txns'
             /\ \E r \in txns' \ txns :
                   /\ txns' \ txns = {r}
                   /\ r.user_id = u
                   /\ r.type = ty
                   /\ r.occurred_at = At(d, 0)
             /\ UNCHANGED <<profiles, xp_events>>]_vars

\* a create has answered 201 although a row of the user below the daily cap
\* has no transaction XP event
C16_Witness ==
    \E u \in Users :
        /\ lastOp.kind = "create"
        /\ lastOp.user = u
        /\ lastOp.status = 201
        /\ Cardinality({r \in txns : r.user_id = u}) < TRANSACTION_DAILY_LIMIT
        /\ Cardinality({r \in txns : r.user_id = u}) >
              Cardinality(EventsOf(u, "transaction"))

\* C17: the rows materialized for a template with total_occurrences = N lie
\* on at most N distinct dates, whatever windows the list requests had
C17_AtMostTotalOccurrences ==
    \A t \in templates :
        Truthy(t.total_occurrences) =>
            Cardinality({DateOf(r.occurred_at) :
                           r \in {x \in txns : x.recurring_template_id = Some(t.id)}})
               <= TheVal(t.total_occurrences)

\* C18: when a list, month-snapshot or today-summary request has answered
\* 200, every occurrence of the user's active templates in the window of the
\* request has its row in the table: the materializer would add nothing
C18_ReadsMaterializeFirst ==
    (lastOp.kind \in {"list", "snapshot", "today"} /\ lastOp.status = 200) =>
        materialize_for_date_range(txns, lastOp.user, At(lastOp.win[1], 0),
                                   At(lastOp.win[2], 0)).pending = {}

C20_TypeImmutable ==
    [][/\ \A u \in Users, id \in RowIds, ty \in TxnTypes,
             d \in {None} \cup {Some(x) : x \in TxnDays} :
           (/\ \E r \in txns : r.id = id /\ r.user_id = u /\ r.type # ty
            /\ UpdateTransaction(u, id, ty, d))
              => txns' = txns /\ lastOp'.status = 400
       /\ \A r \in txns, r2 \in txns' : r.id = r2.id => r.type = r2.type]_vars

\* an update of a row of the caller has been refused with 400
C20_Witness ==
    /\ lastOp.kind = "update"
    /\ lastOp.status = 400
    /\ \E r \in txns : r.user_id = lastOp.user

\* C21: every transaction row has a positive amount
C21_AmountPositive == \A r \in txns : r.amount > 0

\* C22: every transaction row has exactly one of expense_category_id and
\* income_category_id set, on the side of its type
C22_OneCategorySide ==
    \A r \in txns :
        /\ (r.expense_category_id # None) # (r.income_category_id # None)
        /\ (r.type = "expense") = (r.expense_category_id # None)
        /\ (r.type = "income") = (r.income_category_id # None)

\* a template update that would set the income category of an expense
\* template has been refused, while the table holds a row materialized
\* after an accepted category update of the template and a directly created
\* row whose category a partial update has changed
C22_Witness ==
    /\ lastOp.kind = "update_template"
    /\ lastOp.status = 500
    /\ \E t \in templates : t.user_id = lastOp.user /\ t.type = "expense"
    /\ \E r \in txns :
          r.recurring_template_id # None /\ r.expense_category_id = Some("housing_bills")
    /\ \E r \in txns :
          r.recurring_template_id = None /\ r.expense_category_id = Some("housing_bills")

\* C23: no user has more than one budget plan, also when create_budget_plan
\* calls of one user overlap; and a create_budget_plan call for a user who
\* has a plan ends with the already-exists error (400) and leaves the table
\* as it was
C23_OnePlanPerUser ==
    [][/\ \A u \in Users : Cardinality({p \in budget_plans' : p.user_id = u}) <= 1
       /\ \A w \in Workers, u \in Users, g \in SavingsGoals :
             (/\ \E p \in budget_plans : p.user_id = u
              /\ BeginCreatePlan(w, u, g))
                => /\ budget_plans' = budget_plans
                   /\ bp' = bp
                   /\ lastOp'.kind = "create_plan"
                   /\ lastOp'.status = 400]_vars

\* of two overlapping create calls of one user the second commit has been
\* refused by the unique constraint, and the user has one plan
C23_Witness ==
    /\ lastOp.kind = "create_plan"
    /\ lastOp.status = 500
    /\ Cardinality({p \in budget_plans : p.user_id = lastOp.user}) = 1


\* C24: the integer percentages of a month snapshot sum to exactly 100 when
\* the month total is greater than 0 and are all 0 when it is 0, and the
\* subcategory percentages inside a parent category do the same with respect
\* to the parent's total.
C24_PercentagesSumTo100 ==
    (call.fn \in {"category_percents", "subcategory_percents"} /\ call.result # None) =>
        LET r == TheVal(call.result)
            total == SumSeq(call.arg.totals) + call.arg.unassigned
        IN  /\ total > 0 => SumSeq(r) = 100
            /\ total = 0 => \A i \in 1..Len(r) : r[i] = 0


\* C25: in the savings breakdown of a month snapshot the reported delta is
\* 1.0 when the month's savings total is 100 and the previous month's is 0,
\* and 0.0 when both are 0.
C25_SavingsDeltaZeroPrevious ==
    (call.fn = "_build_savings_breakdown" /\ call.result # None /\ call.arg.prev_saved = 0) =>
        LET delta == TheVal(call.result).savedDelta
        IN  /\ call.arg.saved = 100 => (delta # None /\ IsNumber(TheVal(delta), 1))
            /\ call.arg.saved = 0 => (delta # None /\ IsNumber(TheVal(delta), 0))


\* C26: for a monthly template the occurrence of every month from the start
\* month to the window end falls on day min(day_of_month, days in the month):
\* when the template starts on its day_of_month on or after the window start
\* and has no end, the result is one occurrence per month on the clamped day,
\* up to the last one on or before the window's last day (day_of_month 31
\* from 2024-01-31 over 2024-01-01..2024-04-30: 01-31, 02-29, 03-31, 04-30).
C26_MonthlyClampedDay ==
    LET t == call.arg.template
        first == DateOf(t.start_date)
        last == DateOf(call.arg.end_date)
        clamped(m) == DayNum(m, Min(TheVal(t.day_of_month), DaysInMonth(m)))
        months == {m \in MonthOf(first)..MonthOf(last) : clamped(m) <= last}
        r == TheVal(call.result)
    IN  (/\ call.fn = "calculate_occurrences"
         /\ call.result # None
         /\ t.frequency = "monthly"
         /\ t.end_date = None /\ t.total_occurrences = None
         /\ TheVal(t.day_of_month) = DayOfMonth(first)
         /\ call.arg.start_date <= t.start_date)
        => /\ ~r.err
           /\ Len(r.occ) = Cardinality(months)
           /\ \A i \in 1..Len(r.occ) :
                 r.occ[i] = At(clamped(MonthOf(first) + i - 1), 9)


C28_MonthlyInclusion ==
    LET t == call.arg.template
        first == DateOf(t.start_date)
        R_start == DateOf(call.arg.start_date)
        R_end == DateOf(call.arg.end_date)
        clamped(m) == DayNum(m, Min(TheVal(t.day_of_month), DaysInMonth(m)))
        qualifies(m) ==
            /\ clamped(m) >= first
            /\ clamped(m) >= R_start
            /\ clamped(m) <= R_end
            /\ (t.end_date # None => clamped(m) <= DateOf(TheVal(t.end_date)))
        \* the number of qualifying months before month m
        before(m) == Cardinality({k \in 1..(m - 1) : qualifies(k)})
        included == {m \in 1..12 :
                        /\ qualifies(m)
                        /\ (t.total_occurrences # None
                               => before(m) < TheVal(t.total_occurrences))}
        r == TheVal(call.result)
    IN  (/\ call.fn = "calculate_occurrences"
         /\ call.result # None
         /\ t.frequency = "monthly")
        => /\ ~r.err
           /\ {DateOf(r.occ[i]) : i \in 1..Len(r.occ)} = {clamped(m) : m \in included}
           /\ \A i \in 1..(Len(r.occ) - 1) : r.occ[i] < r.occ[i + 1]


\* C29: a check_in that is not a repeat of the day's check-in and finds
\* g = (today - last_login_date).days - 1 > 0 appends exactly g
\* inactivity_penalty events, the d-th of amount -15 * d, before any other
\* event, and current_xp before the XP of the other appended events (the
\* login bonus) is max(0, xp_before - 15 * g * (g + 1) / 2); a check_in with
\* g <= 0 or without last_login_date appends no inactivity_penalty event.
C29_PenaltiesPerMissedDay ==
    [][\A u \in Users :
          CheckIn(u) =>
             LET n == Len(xp_events)
                 added == Len(xp_events') - n
                 g == IF profiles[u].last_login_date = None THEN 0
                      ELSE ServerToday(now) - TheVal(profiles[u].last_login_date) - 1
                 others == {i \in (n + 1)..(n + added) :
                               xp_events'[i].event_type # "inactivity_penalty"}
                 bonus == IF others = {} THEN 0
                          ELSE SumSeq([k \in 1..(added - Max(g, 0)) |->
                                          xp_events'[n + Max(g, 0) + k].xp_amount])
             IN  /\ SubSeq(xp_events', 1, n) = xp_events
                 /\ g > 0 =>
                      /\ added >= g + 1
                      /\ \A d \in 1..g :
                            /\ xp_events'[n + d].event_type = "inactivity_penalty"
                            /\ xp_events'[n + d].user_id = u
                            /\ xp_events'[n + d].xp_amount = 0 - 15 * d
                      /\ others = (n + g + 1)..(n + added)
                      /\ profiles'[u].current_xp - bonus
                            = Max(0, profiles[u].current_xp - (15 * g * (g + 1)) \div 2)
                 /\ g <= 0 => others = (n + 1)..(n + added)]_vars

\* a check-in has found two or more missed days and the penalties have left
\* part of the XP: the profile holds more than the login bonus
C29_Witness ==
    \E u \in Users :
        /\ lastOp.kind = "check_in" /\ lastOp.user = u
        /\ checkin_resp.inactivity_penalties >= 2
        /\ profiles[u].last_login_date = Some(ServerToday(now))
        /\ xp_events[Len(xp_events)].event_type = "daily_login"
        /\ profiles[u].current_xp > 15


\* C30: within one check_in call the XP events are appended in this order:
\* all inactivity_penalty events (day 1 first), then the single daily_login
\* event, then the streak_milestone event if one is awarded.
C30_EventOrderInCheckIn ==
    [][\A u \in Users :
          CheckIn(u) =>
             LET n == Len(xp_events)
                 added == Len(xp_events') - n
                 penalties == {d \in 1..added :
                                  xp_events'[n + d].event_type = "inactivity_penalty"}
                 k == Cardinality(penalties)
             IN  /\ SubSeq(xp_events', 1, n) = xp_events
                 /\ added > 0 =>
                      /\ penalties = 1..k
                      /\ \A d \in 1..k : xp_events'[n + d].description.n = d
                      /\ added \in {k + 1, k + 2}
                      /\ xp_events'[n + k + 1].event_type = "daily_login"
                      /\ added = k + 2 => xp_events'[n + k + 2].event_type = "streak_milestone"
                      /\ checkin_resp'.milestone_reached # None => added = k + 2
                      /\ k = checkin_resp'.inactivity_penalties]_vars

\* the check-in just served has appended a daily_login event followed by a
\* streak_milestone event, and an earlier check-in of the user appended two
\* or more penalties followed by its daily_login event
C30_Witness ==
    \E u \in Users :
        LET n == Len(xp_events)
        IN  /\ lastOp.kind = "check_in" /\ lastOp.user = u
            /\ checkin_resp.milestone_reached # None
            /\ n >= 2
            /\ xp_events[n].event_type = "streak_milestone"
            /\ xp_events[n - 1].event_type = "daily_login"
            /\ xp_events[n - 1].created_at = xp_events[n].created_at
            /\ \E i \in 2..(n - 2) :
                  /\ xp_events[i].event_type = "inactivity_penalty"
                  /\ xp_events[i].description.n = 2
                  /\ xp_events[i - 1].event_type = "inactivity_penalty"
                  /\ xp_events[i + 1].event_type = "daily_login"
                  /\ xp_events[i + 1].created_at = xp_events[i].created_at


\* C31: each subcategory's percent is the subcategory's share of its parent
\* category's total, total / category total x 100 brought to an integer by
\* the largest-remainder rule (the floor of the share, or one more), also
\* when part of the category's expenses carry no subcategory.
C31_SubcategoryShareOfParent ==
    (call.fn = "subcategory_percents" /\ call.result # None) =>
        LET r == TheVal(call.result)
            totals == call.arg.totals
            cat_total == SumSeq(totals) + call.arg.unassigned
        IN  cat_total > 0 =>
               \A i \in 1..Len(r) :
                  /\ r[i] >= (100 * totals[i]) \div cat_total
                  /\ r[i] <= (100 * totals[i]) \div cat_total + 1


\* C32: pausing, resuming or updating a recurring template whose id does
\* not exist or belongs to another user is answered with 404 (not found),
\* not with an internal error, and changes no state.
C32_MissingTemplateIs404 ==
    [][\A u \in Users, id \in TemplateIds, b \in BOOLEAN :
          (/\ SetPaused(u, id, b)
           /\ ~ \E t \in templates : t.id = id /\ t.user_id = u)
          => /\ lastOp'.status = 404
             /\ templates' = templates
             /\ txns' = txns]_vars


\* C33: check_in and award_transaction_xp take today as the current calendar
\* date in the profile's timezone: a check_in leaves last_login_date on the
\* user's local date and repeats nothing on the same local day, and an award
\* leaves last_transaction_date on the user's local date, whatever the
\* server's date is.
C33_TodayInProfileTimezone ==
    [][\A u \in XPUsers :
          LET today == get_user_today(profiles[u].timezone, now)
          IN  /\ CheckIn(u) =>
                   /\ profiles'[u].last_login_date = Some(today)
                   /\ profiles[u].last_login_date = Some(today) => xp_events' = xp_events
              /\ \A d \in TxnDays, ty \in TxnTypes :
                    (CreateTransaction(u, d, ty, FALSE) /\ xp_events' # xp_events)
                       => profiles'[u].last_transaction_date = Some(today)]_vars


\* the rows of the table db that were materialized from template t
RowsOf(db, t) == {r \in db : r.recurring_template_id = Some(t.id)}

\* C34: while a template is paused, a materialization over any window
\* creates no transaction for it and leaves the rows materialized from it
\* before the pause unchanged.
C34_PausedTemplateNotMaterialized ==
    [][\A u \in Users, w \in Windows :
          (/\ lastOp'.kind = "list" /\ lastOp'.user = u /\ lastOp'.win = w
           /\ ListTransactions(u, w))
          => \A t \in templates :
                t.is_paused => RowsOf(txns', t) = RowsOf(txns, t)]_vars

\* a list request has just been served for the owner of a paused template
\* that has a row from before the pause and an occurrence in the window
\* without a row
C34_Witness ==
    /\ lastOp.kind = "list" /\ lastOp.status = 200 /\ lastOp.created = 0
    /\ \E t \in templates :
          /\ t.user_id = lastOp.user
          /\ t.is_paused
          /\ RowsOf(txns, t) # {}
          /\ LET r == calculate_occurrences(t, At(lastOp.win[1], 0), At(lastOp.win[2], 0))
             IN  \E i \in 1..Len(r.occ) :
                    \A row \in RowsOf(txns, t) : row.occurred_at # r.occ[i]


\* C35: occurrence generation is window-consistent: for a template without
\* total_occurrences and windows [a, b] contained in [a', b'], the dates
\* generated for [a, b] are exactly the dates generated for [a', b'] that
\* lie in [a, b], so that a biweekly template keeps its 14-day phase in
\* every window.
C35_WindowConsistent ==
    LET t == call.arg.template
        a == DateOf(call.arg.start_date)
        b == DateOf(call.arg.end_date)
        r == TheVal(call.result)
        inWindow(d) == a <= DateOf(d) /\ DateOf(d) <= b
    IN  (/\ call.fn = "calculate_occurrences"
         /\ call.result # None
         /\ t.total_occurrences = None)
        => \A w \in OccWindows :
              (w[1] <= a /\ b <= w[2]) =>
                 LET wide == calculate_occurrences(t, At(w[1], 0), At(w[2], 0))
                 IN  /\ ~r.err
                     /\ ~wide.err
                     /\ r.occ = SelectSeq(wide.occ, inWindow)


\* C36: after every committed check_in (with or without penalties or a
\* milestone) and every committed award_transaction_xp,
\* current_level = calculate_level_from_xp(current_xp).
C36_LevelMatchesXp ==
    \A u \in Users :
        profiles[u].current_level = calculate_level_from_xp(profiles[u].current_xp)

\* a check-in that applied penalties has just returned for a user with
\* transaction awards, on a level above the first
C36_Witness ==
    \E u \in Users :
        /\ lastOp.kind = "check_in" /\ lastOp.user = u
        /\ checkin_resp.inactivity_penalties > 0
        /\ checkin_resp.xp_awarded = 15
        /\ Cardinality(EventsOf(u, "transaction")) >= 4
        /\ profiles[u].current_level >= 2


RECURSIVE SumPositive(_, _)
\* the sum of the positive xp_amount values over the events of user u among
\* the first n events
SumPositive(u, n) ==
    IF n = 0 THEN 0
    ELSE SumPositive(u, n - 1)
           + (IF xp_events[n].user_id = u /\ xp_events[n].xp_amount > 0
              THEN xp_events[n].xp_amount ELSE 0)

\* C37: when the check_in and award_transaction_xp calls of a user run one
\* at a time from a fresh profile, total_xp_earned equals the sum of the
\* positive xp_amount values in the user's XP event log in every state.
C37_TotalIsSumOfPositiveEvents ==
    \A u \in Users :
        profiles[u].total_xp_earned = SumPositive(u, Len(xp_events))

\* the log of a user holds a login bonus, a transaction award, a penalty
\* and a milestone bonus
C37_Witness ==
    \E u \in Users :
        /\ EventsOf(u, "daily_login") # {}
        /\ EventsOf(u, "transaction") # {}
        /\ EventsOf(u, "inactivity_penalty") # {}
        /\ EventsOf(u, "streak_milestone") # {}
        /\ profiles[u].total_xp_earned > profiles[u].current_xp


\* C38: when a check_in and an award_transaction_xp of one user run
\* concurrently, interleaved in any order, the committed counters include
\* both awards: with one daily_login event and one transaction event
\* committed, current_xp and total_xp_earned account for both (no lost
\* update).
C38_NoLostXpUpdate ==
    \A u \in Users :
        (/\ Cardinality(EventsOf(u, "daily_login")) <= 1
         /\ Cardinality(EventsOf(u, "transaction")) <= 1)
        => /\ profiles[u].current_xp = SumAmounts(u, Len(xp_events))
           /\ profiles[u].total_xp_earned = SumAmounts(u, Len(xp_events))


\* C39: updating a template never modifies a transaction row already
\* materialized from it; only the rows materialized after the update copy
\* the new values (every row a materialization adds carries the amount and
\* the categories its template has at that moment, and the rows that were
\* there stay as they are).
C39_UpdateLeavesMaterializedRows ==
    [][/\ \A u \in XPUsers, id \in TemplateIds, kv \in TemplateUpdates :
             (lastOp'.kind = "update_template" /\ UpdateTemplate(u, id, kv[1], kv[2]))
                => txns' = txns
       /\ \A u \in XPUsers, w \in Windows :
             (/\ lastOp'.kind = "list" /\ lastOp'.user = u /\ lastOp'.win = w
              /\ ListTransactions(u, w))
             => /\ txns \subseteq txns'
                /\ \A r \in txns' \ txns :
                      \E t \in templates :
                         /\ r.recurring_template_id = Some(t.id)
                         /\ r.amount = t.amount
                         /\ r.expense_category_id = t.expense_category_id
                         /\ r.income_category_id = t.income_category_id]_vars

\* a template was updated between two materializations: a row from before
\* the update keeps the old amount next to a row with the new one, and the
\* template holds the new one
C39_Witness ==
    \E t \in templates : \E r1 \in RowsOf(txns, t), r2 \in RowsOf(txns, t) :
        /\ r1.amount # t.amount
        /\ r2.amount = t.amount
        /\ r1.occurred_at # r2.occurred_at


\* C40: check_in returns level_up = true only if the profile's level on
\* return is strictly greater than the level the profile had when the call
\* began, the inactivity penalties of the call included: a call that ends on
\* a lower or equal level never reports level_up.
C40_LevelUpOnlyAboveStart ==
    [][\A u \in Users :
          (lastOp'.kind = "check_in" /\ CheckIn(u) /\ checkin_resp'.level_up)
          => profiles'[u].current_level > profiles[u].current_level]_vars

====
